---- MODULE Spec2Model ----
(***************************************************************************)
(* A model of bioage-dashboard (src/src/App.jsx): the Apple Health and     *)
(* Google Fit import functions parseAH / parseGF, the ImportPanel that     *)
(* drives them, and the entry collection of BioAgeTracker.                 *)
(*                                                                         *)
(* Numbers.  Metric values are held in hundredths (a reading of 40.5 is    *)
(* 4050), which is exact for every value and every average the bounded     *)
(* inputs produce.  Undef stands for null / undefined / NaN.               *)
(*                                                                         *)
(* Text.  Decoded export text is a sequence of symbols.  The symbols "<"   *)
(* and "R" together spell the record start "<Record" (so that a chunk      *)
(* boundary may fall inside it), "/" ">" spell the self-closing end "/>",  *)
(* "E" ">" spell "</Record>", " " is white space, "x" is any other text.   *)
(* A payload symbol ("a", "c", ...) stands for the attribute text of one   *)
(* record; Attrs gives the attributes it carries.  All symbols are ASCII,  *)
(* so the streaming UTF-8 decoder returns each chunk as it is and its      *)
(* final flush is empty.                                                   *)
(*                                                                         *)
(* Dates are day numbers 1, 2, ... in the order of their ISO strings.      *)
(***************************************************************************)
EXTENDS Integers, Sequences, FiniteSets, TLC

VARIABLES
  \* ---- one call of parseAH / parseGF (specification SpecImport)
  file,       \* the input: kind, archive header facts, decoded text, compressed length
  ipc,        \* position of the call: "open" | "stream" | "gfloop" | "assemble" | "returned" | "thrown"
  acc,        \* bpS, bpD, byMD of parseAH; bpByDate, byMD of parseGF
  meta,       \* dSex, dDOB
  wpc,        \* writeLoop: "loop" | "awaitWrite" | "awaitClose" | "done"
  written,    \* writeLoop's counter of bytes written
  wq,         \* chunks handed to writer.write and not yet transformed
  rq,         \* decoded chunks queued on the readable side
  backpressure, \* the transform stream's backpressure flag
  decoded,    \* how much of the text the decompressor has emitted
  rclosed,    \* the readable side is closed
  rpc,        \* readLoop: "loop" | "waiting" | "done"
  textBuf,    \* readLoop's retained text
  firstChunk, \* readLoop's firstChunk flag
  gfi,        \* parseGF's loop index i
  progLog,    \* every value passed to onProgress, in order
  result,     \* what the call returned or threw
  \* ---- BioAgeTracker and its ImportPanel (specification Spec)
  entries,    \* BioAgeTracker: the entry collection
  age, sex, eth, \* BioAgeTracker: the display preferences
  form,       \* BioAgeTracker: the log form
  saved,      \* BioAgeTracker: the "Saved" flag of the log form
  showImport, \* BioAgeTracker: the ImportPanel is mounted
  step,       \* ImportPanel: "instructions" | "loading" | "preview" | "done"
  platform,   \* ImportPanel: "apple" | "google"
  prog,       \* ImportPanel: the progress shown
  preview,    \* ImportPanel: the parse result shown for confirmation
  err,        \* ImportPanel: the error message shown ("" for null)
  tasks,      \* the calls of process() that have not finished
  storage,    \* window.storage: the value kept under each key
  setKeys,    \* every key passed to window.storage.set so far
  restorePc,  \* how many keys the startup effect has read (3: finished)
  now,        \* the last value Date.now() returned
  nLogs, nSubmits, nEdits, \* counters that bound a session
  \* ---- the ZIP reader of parseAH / parseGF on a byte buffer (specification SpecZip)
  zfn,        \* which function reads the archive: "parseAH" | "parseGF"
  ab,         \* the ArrayBuffer of the file
  zpc,        \* position: "eocd" | "cd" | "scan" | "local" | "files" | "done" | "thrown"
  zloc,       \* the locals eocd, cdOffset, cdSize, pos, entry, fitFiles, i
  zout,       \* the byte ranges whose content was decoded and handed on, and the error thrown
  \* ---- one call of a scoring function (specification SpecScore)
  call,       \* the function called and its arguments
  ret         \* the value it returned

importVars == <<file, ipc, acc, meta, wpc, written, wq, rq, backpressure, decoded,
                rclosed, rpc, textBuf, firstChunk, gfi, progLog, result>>

appVars == <<entries, age, sex, eth, form, saved, showImport, step, platform, prog,
             preview, err, tasks, storage, setKeys, restorePc, now, nLogs, nSubmits, nEdits>>

zipVars == <<zfn, ab, zpc, zloc, zout>>

scoreVars == <<call, ret>>

vars == <<importVars, appVars, zipVars, scoreVars>>

Undef == 0 - 1

\* ---- bounds of the model
MaxItems == 2      \* items (records, white space, metadata) of a decoded text
MaxChunks == 3     \* 64 KB chunks of a compressed slice
MaxOut == 1        \* decoded chunks the decompressor emits for one compressed chunk
MaxFiles == 2      \* Fit JSON files of a Google archive
MaxPts == 1        \* data points of one JSON file

Min(S) == CHOOSE m \in S : \A n \in S : m <= n
Max(S) == CHOOSE m \in S : \A n \in S : m >= n

\* Math.round of the non-negative rational num/den
Round(num, den) == (2 * num + den) \div (2 * den)

RECURSIVE SumSeq(_)
SumSeq(s) == IF s = <<>> THEN 0 ELSE Head(s) + SumSeq(Tail(s))

RECURSIVE Concat(_)
Concat(ss) == IF ss = <<>> THEN <<>> ELSE Head(ss) \o Concat(Tail(ss))

\* ---- insertion-ordered JS objects: sequences of [k, v]
Has(obj, key) == \E i \in 1..Len(obj) : obj[i].k = key
Idx(obj, key) == CHOOSE i \in 1..Len(obj) : obj[i].k = key
Get(obj, key, dflt) == IF Has(obj, key) THEN obj[Idx(obj, key)].v ELSE dflt
Put(obj, key, val) ==
  IF Has(obj, key) THEN [obj EXCEPT ![Idx(obj, key)].v = val]
  ELSE Append(obj, [k |-> key, v |-> val])
Keys(obj) == [i \in 1..Len(obj) |-> obj[i].k]

\* byMD[mid][date].push(val)
Push(byMD, mid, date, val) ==
  LET byDate == Get(byMD, mid, <<>>)
      vals == Get(byDate, date, <<>>)
  IN Put(byMD, mid, Put(byDate, date, Append(vals, val)))

\* ---- metric table
MK == <<"vo2max", "rhr", "bp", "glucose", "bodyfat">>

\* MB[mid]?.dp ?? 1
dpOf(mid) == IF mid \in {"rhr", "bp", "glucose"} THEN 0 ELSE 1

\* parseFloat(avg.toFixed(dp)) of a list of values in hundredths
avgFixed(vals, dp) ==
  LET unit == IF dp = 0 THEN 100 ELSE IF dp = 1 THEN 10 ELSE 1
  IN Round(SumSeq(vals), Len(vals) * unit) * unit

\* Math.round of a value in hundredths
roundUnit(v) == Round(v, 100) * 100

\* ---- Apple Health: record types and attributes
AHT(type) ==
  CASE type = "HKQuantityTypeIdentifierVO2Max" -> "vo2max"
    [] type = "HKQuantityTypeIdentifierRestingHeartRate" -> "rhr"
    [] type = "HKQuantityTypeIdentifierBloodPressureSystolic" -> "bp_sys"
    [] type = "HKQuantityTypeIdentifierBloodPressureDiastolic" -> "bp_dia"
    [] type = "HKQuantityTypeIdentifierBloodGlucose" -> "glucose"
    [] type = "HKQuantityTypeIdentifierBodyFatPercentage" -> "bodyfat"
    [] OTHER -> ""

\* The attribute text a payload symbol stands for: type, value (hundredths),
\* unit, and the day of startDate (0: no startDate and no creationDate).
Attrs(c) ==
  CASE c = "a" -> [type |-> "HKQuantityTypeIdentifierVO2Max", value |-> 4000, unit |-> "mL/min*kg", day |-> 1]
    [] c = "c" -> [type |-> "HKQuantityTypeIdentifierVO2Max", value |-> 4300, unit |-> "mL/min*kg", day |-> 1]
    [] c = "y" -> [type |-> "HKQuantityTypeIdentifierBloodPressureSystolic", value |-> 12000, unit |-> "mmHg", day |-> 1]
    [] c = "z" -> [type |-> "HKQuantityTypeIdentifierBloodPressureDiastolic", value |-> 8000, unit |-> "mmHg", day |-> 1]
    [] c = "g" -> [type |-> "HKQuantityTypeIdentifierBloodGlucose", value |-> 500, unit |-> "mmol<180.1558800000541>/L", day |-> 2]
    [] c = "f" -> [type |-> "HKQuantityTypeIdentifierBodyFatPercentage", value |-> 20, unit |-> "%", day |-> 2]
    [] c = "n" -> [type |-> "HKQuantityTypeIdentifierStepCount", value |-> 100000, unit |-> "count", day |-> 1]
    [] c = "q" -> [type |-> "HKQuantityTypeIdentifierRestingHeartRate", value |-> Undef, unit |-> "count/min", day |-> 1]
    [] c = "d" -> [type |-> "HKQuantityTypeIdentifierVO2Max", value |-> 4100, unit |-> "mL/min*kg", day |-> 0]
    [] OTHER -> [type |-> "", value |-> Undef, unit |-> "", day |-> 0]

Payloads == {"a", "c", "y", "z", "g", "f", "n", "q", "d"}

\* attr(n, t): the first occurrence of the attribute in the record text
attr(n, rec) ==
  LET P == {i \in 1..Len(rec) : rec[i] \in Payloads}
  IN IF P = {} THEN Attrs("")[n] ELSE Attrs(rec[Min(P)])[n]

unitHasMmol(unit) == unit = "mmol<180.1558800000541>/L"

\* ---- the record pattern /<Record\b[^>]*?(?:\/>|>[\s\S]*?<\/Record>)/g
isWordChar(c) == c = "R"

\* "<Record" starts at position i and a word boundary follows it
recStart(buf, i) ==
  /\ i + 1 <= Len(buf)
  /\ buf[i] = "<"
  /\ buf[i + 1] = "R"
  /\ (i + 2 > Len(buf) \/ ~isWordChar(buf[i + 2]))

\* The position of the last symbol of the match that starts at i, or 0.  [^>]*?
\* cannot pass the first ">", so the match ends there if "/" precedes it, and
\* otherwise at the first "</Record>" after it.
matchEnd(buf, i) ==
  LET G == {j \in (i + 2)..Len(buf) : buf[j] = ">"}
  IN IF G = {} THEN 0
     ELSE LET j == Min(G)
          IN IF j - 1 >= i + 2 /\ buf[j - 1] = "/" THEN j
             ELSE LET C == {e \in (j + 1)..(Len(buf) - 1) : buf[e] = "E" /\ buf[e + 1] = ">"}
                  IN IF C = {} THEN 0 ELSE Min(C) + 1

\* re.exec from position from: the start of the next match, or 0
nextMatch(buf, from) ==
  LET S == {i \in from..Len(buf) : recStart(buf, i) /\ matchEnd(buf, i) # 0}
  IN IF S = {} THEN 0 ELSE Min(S)

\* The body of proc's loop for one matched record (lines 233-241)
procRecord(a, rec) ==
  LET type == attr("type", rec)
      mid == AHT(type)
      rv == attr("value", rec)
      unit == attr("unit", rec)
      rd == attr("day", rec)
      v1 == IF type = "HKQuantityTypeIdentifierBodyFatPercentage" /\ rv <= 100
            THEN rv * 100 ELSE rv
      val == IF type = "HKQuantityTypeIdentifierBloodGlucose" /\ (unitHasMmol(unit) \/ v1 < 2500)
             THEN Round(v1 * 180182, 1000000) * 100 ELSE v1
  IN IF mid = "" THEN a
     ELSE IF rd = 0 \/ rv = Undef THEN a
     ELSE IF mid = "bp_sys" THEN [a EXCEPT !.bpS = Put(a.bpS, rd, val)]
     ELSE IF mid = "bp_dia" THEN [a EXCEPT !.bpD = Put(a.bpD, rd, val)]
     ELSE [a EXCEPT !.byMD = Push(a.byMD, mid, rd, val)]

RECURSIVE procFrom(_, _, _, _)
procFrom(buf, from, a, last) ==
  LET i == nextMatch(buf, from)
  IN IF i = 0 THEN [acc |-> a, last |-> last]
     ELSE LET e == matchEnd(buf, i)
          IN procFrom(buf, e + 1, procRecord(a, SubSeq(buf, i, e)), e)

\* proc(buf): the accumulators after the call, and the offset it returns
proc(buf, a) == procFrom(buf, 1, a, 0)

\* ---- parseAH: result assembly (lines 369-379)
truthy(v) == v # Undef /\ v # 0

\* new Set([...Object.keys(bpS),...Object.keys(bpD)])
bpDates(a) == Keys(a.bpS) \o SelectSeq(Keys(a.bpD), LAMBDA d : ~Has(a.bpS, d))

\* forEach(date => { if (bpS[date]) byMD.bp[date] = [{sys, dia: bpD[date] || null}] })
RECURSIVE joinBP(_, _, _)
joinBP(dates, a, byMD) ==
  IF dates = <<>> THEN byMD
  ELSE LET date == Head(dates)
           sys == Get(a.bpS, date, Undef)
           d0 == Get(a.bpD, date, Undef)
           dia == IF truthy(d0) THEN d0 ELSE Undef
       IN IF truthy(sys)
          THEN joinBP(Tail(dates), a,
                      Put(byMD, "bp", Put(Get(byMD, "bp", <<>>), date, <<[sys |-> sys, dia |-> dia]>>)))
          ELSE joinBP(Tail(dates), a, byMD)

\* One entry for every value of the day, none of them averaged
ahEntryPerValue(mid, date, vals) ==
  [i \in 1..Len(vals) |->
    [id |-> <<"ah", mid, date>>, metricId |-> mid,
     value |-> IF mid = "bp" THEN vals[i].sys ELSE vals[i], secondary |-> Undef,
     date |-> date, note |-> "Apple Health"]]

ahEntry(mid, date, vals) ==
  IF mid = "bp"
  THEN Concat([i \in 1..Len(vals) |->
         IF truthy(vals[i].sys)
         THEN <<[id |-> <<"ah", "bp", date, vals[i].sys>>, metricId |-> "bp",
                 value |-> roundUnit(vals[i].sys),
                 secondary |-> IF truthy(vals[i].dia) THEN roundUnit(vals[i].dia) ELSE Undef,
                 date |-> date, note |-> "Apple Health"]>>
         ELSE <<>>])
  ELSE <<[id |-> <<"ah", mid, date>>, metricId |-> mid,
          value |-> avgFixed(vals, dpOf(mid)), secondary |-> Undef,
          date |-> date, note |-> "Apple Health"]>>

\* Object.entries(byMD).forEach(([mid, byDate]) => Object.entries(byDate).forEach(...))
entriesAH(byMD) ==
  Concat([m \in 1..Len(byMD) |->
    Concat([d \in 1..Len(byMD[m].v) |-> ahEntry(byMD[m].k, byMD[m].v[d].k, byMD[m].v[d].v)])])

\* The entry list parseAH assembles from its accumulators
assembleAH(a) == entriesAH(joinBP(bpDates(a), a, a.byMD))

emptyAH == [bpS |-> <<>>, bpD |-> <<>>, byMD |-> <<>>]

\* ---- parseGF: data points (lines 385-449)
GFT(dtn) ==
  CASE dtn = "com.google.heart_rate.bpm" -> "rhr"
    [] dtn = "com.google.blood_pressure" -> "bp"
    [] dtn = "com.google.blood_glucose.level" -> "glucose"
    [] dtn = "com.google.body.fat.percentage" -> "bodyfat"
    [] dtn = "com.google.fitness.vo2max" -> "vo2max"
    [] dtn = "com.google.vo2max" -> "vo2max"
    [] OTHER -> ""

\* The file-name fallback; a file name is held as the data-type part of its path
fnameMid(fname) ==
  IF fname = "heart_rate" THEN "rhr"
  ELSE IF fname = "blood_pressure" THEN "bp"
  ELSE IF fname = "blood_glucose" THEN "glucose"
  ELSE IF fname \in {"body_fat", "body.fat"} THEN "bodyfat"
  ELSE IF fname = "vo2" THEN "vo2max"
  ELSE ""

\* fv[i]?.fpVal
fpValAt(fv, i) == IF i <= Len(fv) THEN fv[i].fpVal ELSE Undef

\* The body of procJSON's forEach for one data point.  ns is the day of
\* startTimeNanos || endTimeNanos (0: neither), which toISOString renders.
procPoint(a, pt, fname) ==
  LET m0 == GFT(pt.dtn)
      mid == IF m0 # "" THEN m0 ELSE fnameMid(fname)
      date == pt.ns
      fv == pt.fv
      sys == fpValAt(fv, 1)
      dia == fpValAt(fv, 2)
      v0 == IF fv[1].fpVal # Undef THEN fv[1].fpVal ELSE fv[1].intVal
      v1 == IF mid = "glucose" /\ v0 < 2500 THEN Round(v0 * 180182, 1000000) * 100 ELSE v0
      val == IF mid = "bodyfat" /\ v1 <= 100 THEN v1 * 100 ELSE v1
  IN IF mid = "" THEN a
     ELSE IF date = 0 THEN a
     ELSE IF fv = <<>> THEN a
     ELSE IF mid = "bp"
       THEN IF truthy(sys) /\ sys > 0
            THEN [a EXCEPT !.bpByDate =
                   Put(a.bpByDate, date,
                       Append(Get(a.bpByDate, date, <<>>),
                              [sys |-> roundUnit(sys),
                               dia |-> IF truthy(dia) THEN roundUnit(dia) ELSE Undef]))]
            ELSE a
     ELSE IF v0 = Undef THEN a
     ELSE [a EXCEPT !.byMD = Push(a.byMD, mid, date, val)]

RECURSIVE procPoints(_, _, _)
procPoints(a, pts, fname) ==
  IF pts = <<>> THEN a ELSE procPoints(procPoint(a, Head(pts), fname), Tail(pts), fname)

\* procJSON(json, fname): text that does not parse leaves the accumulators alone
procJSON(a, json, fname) == IF json.ok THEN procPoints(a, json.pts, fname) ELSE a

\* Object.entries(bpByDate).forEach(([date, vals]) => { byMD.bp[date] = vals })
RECURSIVE foldBP(_, _)
foldBP(bp, byMD) ==
  IF bp = <<>> THEN byMD
  ELSE foldBP(Tail(bp), Put(byMD, "bp", Put(Get(byMD, "bp", <<>>), Head(bp).k, Head(bp).v)))

gfEntry(mid, date, vals) ==
  IF mid = "bp"
  THEN Concat([i \in 1..Len(vals) |->
         IF truthy(vals[i].sys)
         THEN <<[id |-> <<"gf", "bp", date, vals[i].sys>>, metricId |-> "bp",
                 value |-> vals[i].sys, secondary |-> vals[i].dia,
                 date |-> date, note |-> "Google Fit"]>>
         ELSE <<>>])
  ELSE <<[id |-> <<"gf", mid, date>>, metricId |-> mid,
          value |-> avgFixed(vals, dpOf(mid)), secondary |-> Undef,
          date |-> date, note |-> "Google Fit"]>>

entriesGF(byMD) ==
  Concat([m \in 1..Len(byMD) |->
    Concat([d \in 1..Len(byMD[m].v) |-> gfEntry(byMD[m].k, byMD[m].v[d].k, byMD[m].v[d].v)])])

\* The entry list parseGF assembles from its accumulators
assembleGF(a) == entriesGF(foldBP(a.bpByDate, a.byMD))

emptyGF == [bpByDate |-> <<>>, byMD |-> <<>>]

\* counts[e.metricId] = (counts[e.metricId] || 0) + 1
countsOf(es) ==
  [m \in {MK[i] : i \in 1..Len(MK)} |-> Cardinality({i \in 1..Len(es) : es[i].metricId = m})]

\* exMeta(t): the first sex and date-of-birth attributes of the text.  "sF" and
\* "sM" are a BiologicalSex attribute naming Female / Male, "sO" one naming
\* neither, "b" a DateOfBirth attribute (its year is BirthYear).
exMeta(t, m) ==
  LET S == {i \in 1..Len(t) : t[i] \in {"sF", "sM", "sO"}}
      B == {i \in 1..Len(t) : t[i] = "b"}
      sx == IF S = {} THEN "" ELSE t[Min(S)]
  IN [dSex |-> IF sx = "sF" THEN "female" ELSE IF sx = "sM" THEN "male" ELSE m.dSex,
      dDOB |-> IF B = {} THEN m.dDOB ELSE "b"]

noMeta == [dSex |-> "", dDOB |-> ""]

\* ======================= the ZIP reader on a byte buffer =======================
\* parseAH and parseGF read the archive with the same code (lines 260-320 and
\* 452-498).  An ArrayBuffer is held as its leading bytes (head), its length
\* (len; the bytes after head are zero) and the description it was built from
\* (src).  Every archive of the model is far smaller than 4 GB: no size or
\* offset field holds 0xFFFFFFFF and no ZIP64 locator precedes the EOCD record,
\* so the ZIP64 fallbacks (lines 276-282, 295-307) are not taken.

EOCDLen == 22
EOCDWindow == 65558

\* The little-endian bytes of the signatures 0x06054b50, 0x02014b50, 0x04034b50
Sig(s) ==
  CASE s = "eocd" -> <<80, 75, 5, 6>>
    [] s = "central" -> <<80, 75, 1, 2>>
    [] s = "local" -> <<80, 75, 3, 4>>

\* The UTF-8 bytes of the strings the readers compare names with, and of the
\* file names of the model's archives
utf8(s) ==
  CASE s = "export.xml" -> <<101, 120, 112, 111, 114, 116, 46, 120, 109, 108>>
    [] s = "apple_health_export/export.xml" ->
         <<97, 112, 112, 108, 101, 95, 104, 101, 97, 108, 116, 104, 95, 101, 120, 112, 111,
           114, 116, 47, 101, 120, 112, 111, 114, 116, 46, 120, 109, 108>>
    [] s = "notes.txt" -> <<110, 111, 116, 101, 115, 46, 116, 120, 116>>
    [] s = "Fit/hr.json" -> <<70, 105, 116, 47, 104, 114, 46, 106, 115, 111, 110>>
    [] s = "All Data.JSON" -> <<65, 108, 108, 32, 68, 97, 116, 97, 46, 74, 83, 79, 78>>
    [] s = "fit.json" -> <<102, 105, 116, 46, 106, 115, 111, 110>>
    [] s = "all data" -> <<97, 108, 108, 32, 100, 97, 116, 97>>
    [] s = "fit" -> <<102, 105, 116>>
    [] s = "/" -> <<47>>
    [] s = ".json" -> <<46, 106, 115, 111, 110>>

byteAt(b, o) == IF o < Len(b.head) THEN b.head[o + 1] ELSE 0

\* DataView.getUint16 / getUint32 throw a RangeError unless the bytes read lie
\* inside the buffer
inRange(b, o, n) == o >= 0 /\ o + n <= b.len

\* view.getUintN(o, true): the little-endian value of the n bytes at o
RECURSIVE uint(_, _, _)
uint(b, o, n) == IF n = 0 THEN 0 ELSE byteAt(b, o) + 256 * uint(b, o + 1, n - 1)

\* u32(o) === signature
sigAt(b, o, sig) == \A k \in 1..4 : byteAt(b, o + k - 1) = sig[k]

\* bytes.subarray(from, to): both ends are clamped to the buffer
subarray(b, from, to) ==
  LET lo == IF from < b.len THEN from ELSE b.len
      hi == IF to < b.len THEN to ELSE b.len
  IN [start |-> lo, end |-> IF hi < lo THEN lo ELSE hi]

\* The bytes of a range of the buffer, as TextDecoder.decode receives them
bytesOf(b, r) == [k \in 1..(r.end - r.start) |-> byteAt(b, r.start + k - 1)]

\* String.prototype.toLowerCase, includes and endsWith on decoded ASCII names
lower(bs) == [k \in 1..Len(bs) |-> IF bs[k] >= 65 /\ bs[k] <= 90 THEN bs[k] + 32 ELSE bs[k]]
includes(bs, sub) ==
  \E i \in 0..(Len(bs) - Len(sub)) : SubSeq(bs, i + 1, i + Len(sub)) = sub
endsWith(bs, sub) ==
  Len(bs) >= Len(sub) /\ SubSeq(bs, Len(bs) - Len(sub) + 1, Len(bs)) = sub

\* ---- 1. the backward scan for the EOCD signature (lines 268-271, 456-459)
\* The lowest offset the loop tries (the highest is byteLength - 22), and a
\* variant that stops one offset earlier
scanFromAbove(len) == Max({0, len - EOCDWindow + 1})
scanFrom(len) == Max({0, len - EOCDWindow})

\* The offset the loop breaks at (the highest one that holds the signature), or -1
findEOCD(b) ==
  LET S == {i \in scanFrom(b.len)..(b.len - EOCDLen) : sigAt(b, i, Sig("eocd"))}
  IN IF S = {} THEN 0 - 1 ELSE Max(S)

\* ---- 3. one record of the central directory (lines 290-292, 470-472)
cdRecord(b, pos) ==
  LET fnLen == uint(b, pos + 28, 2)
      extraLen == uint(b, pos + 30, 2)
      commentLen == uint(b, pos + 32, 2)
  IN [compression |-> uint(b, pos + 10, 2), compSize |-> uint(b, pos + 20, 4),
      localOff |-> uint(b, pos + 42, 4),
      fname |-> bytesOf(b, subarray(b, pos + 46, pos + 46 + fnLen)),
      next |-> pos + 46 + fnLen + extraLen + commentLen]

\* fname === "apple_health_export/export.xml" || fname === "export.xml" (line 309)
isExportXml(fname) == fname \in {utf8("apple_health_export/export.xml"), utf8("export.xml")}

\* inFitFolder && lname.endsWith(".json") && compSize > 0 (lines 484-486)
isFitFile(r) ==
  LET lname == lower(r.fname)
      inFitFolder == includes(lname, utf8("all data"))
                     \/ (includes(lname, utf8("fit")) /\ includes(lname, utf8("/")))
  IN inFitFolder /\ endsWith(lname, utf8(".json")) /\ r.compSize > 0

\* ---- isGoogleFitZip on the bytes (lines 395-412): the scan of the local
\* headers of the first 2 MB, which the buffers of the model fit into.  The
\* loop steps over every byte that begins no local-header signature (the
\* bytes past b.head are zero); at a signature it reads the name and either
\* returns true or skips the header, the name, the extra field and the
\* compressed size the header states.  No read lies outside the buffer, as
\* p < bytes.length - 30.
RECURSIVE isGoogleFitZipBytes(_, _)
isGoogleFitZipBytes(b, p) ==
  LET S == {i \in p..Min({b.len - 31, Len(b.head)}) : sigAt(b, i, Sig("local"))}
  IN IF S = {} THEN FALSE
     ELSE LET q == Min(S)
              fnLen == uint(b, q + 26, 2)
              exLen == uint(b, q + 28, 2)
              fname == lower(bytesOf(b, subarray(b, q + 30, q + 30 + fnLen)))
          IN IF includes(fname, utf8("fit")) /\ endsWith(fname, utf8(".json")) THEN TRUE
             ELSE isGoogleFitZipBytes(b, q + 30 + fnLen + exLen + uint(b, q + 18, 4))

\* ---- 4. the data of an entry (lines 317-320, 495-498): the error thrown, or
\* the range of compSlice
\* The message of line 362, and a variant that leaves the method out
unsupportedPlain(method) == "Unsupported ZIP compression method."
unsupportedMsg(method) ==
  "Unsupported ZIP compression method " \o ToString(method) \o ". Expected Deflate (8)."

localData(b, e) ==
  IF ~inRange(b, e.localOff, 4) THEN [err |-> "RangeError", bad |-> FALSE]
  ELSE IF ~sigAt(b, e.localOff, Sig("local")) THEN [err |-> "", bad |-> TRUE]
  ELSE IF ~inRange(b, e.localOff + 26, 4) THEN [err |-> "RangeError", bad |-> FALSE]
  ELSE LET lfnLen == uint(b, e.localOff + 26, 2)
           lextraLen == uint(b, e.localOff + 28, 2)
           dataStart == e.localOff + 30 + lfnLen + lextraLen
       IN [err |-> "", bad |-> FALSE, slice |-> subarray(b, dataStart, dataStart + e.compSize)]

\* ---- archives of the model
leBytes(v, n) == [k \in 1..n |-> (v \div (256 ^ (k - 1))) % 256]
zeros(n) == [k \in 1..n |-> 0]

\* The bytes of an archive: for every file a local header with its name, extra
\* field and data (and, when the header leaves its sizes zero, a data
\* descriptor), then the central directory, then the EOCD record with the
\* archive comment, then a.pad further zero bytes
zipOf(a) ==
  LET n == Len(a.files)
      size(f) == IF f.lzero THEN 0 ELSE Len(f.content)
      localPart(f) ==
        (IF f.lsig THEN Sig("local") ELSE zeros(4)) \o leBytes(20, 2)
        \o leBytes(IF f.lzero THEN 8 ELSE 0, 2) \o leBytes(f.method, 2) \o zeros(8)
        \o leBytes(size(f), 4) \o leBytes(size(f), 4) \o leBytes(Len(f.name), 2) \o leBytes(f.lextra, 2)
        \o f.name \o zeros(f.lextra) \o f.content
        \o (IF f.lzero THEN zeros(4) \o leBytes(Len(f.content), 4) \o leBytes(Len(f.content), 4) ELSE <<>>)
      locals == [i \in 1..n |-> localPart(a.files[i])]
      localOff(i) == Len(Concat(SubSeq(locals, 1, i - 1)))
      centralPart(i) ==
        LET f == a.files[i]
        IN Sig("central") \o leBytes(20, 2) \o leBytes(20, 2) \o leBytes(IF f.lzero THEN 8 ELSE 0, 2)
           \o leBytes(f.method, 2) \o zeros(8) \o leBytes(Len(f.content), 4) \o leBytes(Len(f.content), 4)
           \o leBytes(Len(f.name), 2) \o leBytes(f.cextra, 2) \o zeros(2) \o zeros(8)
           \o leBytes(localOff(i), 4) \o f.name \o zeros(f.cextra)
      cd == Concat([i \in 1..n |-> centralPart(i)])
      eocd == Sig("eocd") \o zeros(4) \o leBytes(n, 2) \o leBytes(n, 2) \o leBytes(Len(cd), 4)
              \o leBytes(Len(Concat(locals)), 4) \o leBytes(Len(a.comment), 2) \o a.comment
      head == Concat(locals) \o cd \o eocd
  IN [head |-> head, len |-> Len(head) + a.pad, src |-> a]

\* Where the content of file i of the archive lies in zipOf(a)
contentRange(a, i) ==
  LET partLen(f) == 30 + Len(f.name) + f.lextra + Len(f.content) + (IF f.lzero THEN 12 ELSE 0)
      before == SumSeq([j \in 1..(i - 1) |-> partLen(a.files[j])])
      start == before + 30 + Len(a.files[i].name) + a.files[i].lextra
  IN [start |-> start, end |-> start + Len(a.files[i].content)]

zfile(name, method, content, lsig, lzero, lextra, cextra) ==
  [name |-> utf8(name), method |-> method, content |-> content, lsig |-> lsig,
   lzero |-> lzero, lextra |-> lextra, cextra |-> cextra]

\* The archives: a single stored export.xml in every combination of zeroed
\* local sizes, extra fields, content (one content begins with the EOCD
\* signature) and archive comment (none, plain, one that begins with the EOCD
\* signature); the same entry behind 65536 and 65537 bytes of padding; entries
\* with a bad local header or another compression method; archives without
\* export.xml; Google Fit archives with one or two JSON files
ZipArchives ==
  LET xml == <<60, 82, 47, 62>>
      fake == Sig("eocd") \o zeros(18)
      json == <<123, 125>>
      one(f, c, p) == [files |-> <<f>>, comment |-> c, pad |-> p]
      hr(method, lsig) == zfile("Fit/hr.json", method, json, lsig, FALSE, 0, 0)
      all == zfile("All Data.JSON", 0, json, TRUE, TRUE, 2, 0)
  IN {one(zfile("export.xml", 0, c, TRUE, lz, lx, cx), cm, 0) :
        c \in {xml, fake}, lz \in BOOLEAN, lx \in {0, 4}, cx \in {0, 9},
        cm \in {<<>>, <<32, 32>>, fake}}
     \cup {one(zfile("export.xml", 0, xml, TRUE, FALSE, 0, 0), <<>>, p) : p \in {65536, 65537}}
     \cup {one(zfile("export.xml", m, xml, ls, FALSE, 0, 0), <<>>, 0) :
             m \in {0, 8, 12, 99}, ls \in BOOLEAN}
     \cup {[files |-> <<zfile("notes.txt", 0, xml, TRUE, FALSE, 0, 3),
                       zfile("apple_health_export/export.xml", m, xml, TRUE, TRUE, 4, 0)>>,
            comment |-> <<>>, pad |-> 0] : m \in {0, 8}}
     \cup {one(zfile("notes.txt", 0, xml, TRUE, FALSE, 0, 0), <<>>, 0),
           one(zfile("fit.json", 0, json, TRUE, FALSE, 0, 0), <<>>, 0),
           one(zfile("Fit/hr.json", 0, <<>>, TRUE, FALSE, 0, 0), <<>>, 0)}
     \cup {[files |-> <<hr(m, ls), all>>, comment |-> <<>>, pad |-> 0] :
             m \in {0, 8, 12}, ls \in BOOLEAN}
     \cup {[files |-> <<all, hr(m, ls)>>, comment |-> <<>>, pad |-> 0] :
             m \in {0, 12}, ls \in BOOLEAN}

\* Buffers that are no archive: shorter than an EOCD record, or nothing but one
ZipBuffers ==
  {zipOf(a) : a \in ZipArchives}
  \cup {[head |-> h, len |-> n, src |-> [files |-> <<>>, comment |-> <<>>, pad |-> 0]] :
          h \in {<<>>, Sig("eocd")}, n \in {4, 21, 22}}

noLocals ==
  [eocd |-> 0 - 1, cdOffset |-> 0, cdSize |-> 0, pos |-> 0, entry |-> <<>>, fitFiles |-> <<>>,
   i |-> 0]
noOutput == [handed |-> <<>>, err |-> ""]

IdleZip ==
  /\ zfn = "parseAH" /\ ab = [head |-> <<>>, len |-> 0, src |-> [files |-> <<>>, comment |-> <<>>, pad |-> 0]]
  /\ zpc = "idle" /\ zloc = noLocals /\ zout = noOutput

\* ======================= scoring and the bio-age estimate =======================
\* Values, band bounds and optimal ranges are in hundredths.  A score is the
\* exact rational n / d (d > 0) of the expression the code evaluates; Null is
\* the null the functions return.
Null == [n |-> 0, d |-> 0]

\* ---- ETHNICITIES (lines 6-20): adjustments[id].optMaxD, 0 when there is none
EthAll == {"general", "south_asian", "black_african", "hispanic", "east_asian"}

optMaxD(e, id) ==
  CASE e = "south_asian" /\ id = "bodyfat" -> 0 - 300
    [] e = "south_asian" /\ id = "glucose" -> 0 - 500
    [] e = "black_african" /\ id = "bp" -> 0 - 500
    [] e = "black_african" /\ id = "glucose" -> 0 - 500
    [] e = "hispanic" /\ id = "glucose" -> 0 - 500
    [] e = "hispanic" /\ id = "bodyfat" -> 0 - 200
    [] e = "east_asian" /\ id = "bodyfat" -> 0 - 300
    [] e = "east_asian" /\ id = "glucose" -> 0 - 300
    [] OTHER -> 0

\* ---- MB (lines 23-89): one sex's opt and ranges; the ranges are given by
\* their bounds lo1, lo2 = hi1, lo3 = hi2, lo4 = hi3, hi4
sexBlock(optMin, optMax, bounds) ==
  [opt |-> [min |-> optMin, max |-> optMax],
   ranges |-> [i \in 1..4 |-> [lo |-> bounds[i], hi |-> bounds[i + 1]]]]

MB(id) ==
  CASE id = "vo2max" ->
         [higherIsBetter |-> TRUE,
          female |-> sexBlock(3800, 4400, <<1500, 2700, 3150, 3800, 5500>>),
          male |-> sexBlock(4600, 5600, <<2000, 3000, 3800, 4600, 7000>>)]
    [] id = "rhr" ->
         [higherIsBetter |-> FALSE,
          female |-> sexBlock(4000, 6000, <<4000, 5600, 6600, 7600, 10000>>),
          male |-> sexBlock(4000, 6000, <<4000, 5600, 6600, 7600, 10000>>)]
    [] id = "bp" ->
         [higherIsBetter |-> FALSE,
          female |-> sexBlock(9000, 12000, <<9000, 12000, 13000, 14000, 16000>>),
          male |-> sexBlock(9000, 12000, <<9000, 12000, 13000, 14000, 16000>>)]
    [] id = "glucose" ->
         [higherIsBetter |-> FALSE,
          female |-> sexBlock(6000, 8500, <<6000, 8500, 10000, 12600, 14500>>),
          male |-> sexBlock(6000, 8500, <<6000, 8500, 10000, 12600, 14500>>)]
    [] id = "bodyfat" ->
         [higherIsBetter |-> FALSE,
          female |-> sexBlock(1400, 2000, <<1000, 2000, 2500, 3200, 4500>>),
          male |-> sexBlock(600, 1700, <<500, 1700, 2200, 2800, 4000>>)]

\* getM's copy of the ranges, which the adjustment does not touch (lines
\* 94-96), and a variant in which the adjustment moves the bands as well
shiftedRanges(R, delta) == [i \in 1..Len(R) |-> [lo |-> R[i].lo + delta, hi |-> R[i].hi + delta]]
adjustedRanges(R, delta) == R

\* getM(id, sex, eth) (lines 92-99)
getM(id, sx, e) ==
  IF id \notin {MK[i] : i \in 1..Len(MK)} THEN [null |-> TRUE]
  ELSE LET base == MB(id)
           sc == IF sx = "male" THEN base.male ELSE base.female
           adj == optMaxD(e, id)
           optMax == IF adj # 0 THEN Max({sc.opt.min + 100, sc.opt.max + adj}) ELSE sc.opt.max
       IN [null |-> FALSE, higherIsBetter |-> base.higherIsBetter,
           opt |-> [min |-> sc.opt.min, max |-> optMax],
           ranges |-> adjustedRanges(sc.ranges, adj)]

\* ---- getScore (lines 102-114)
\* The anchors ST, and a variant with another third anchor
STFlat == <<15, 45, 70, 100>>
ST == <<15, 45, 72, 100>>

\* Math.min(100, x) and Math.max(15, x) of a rational
clampScore(x, hib) ==
  IF hib THEN (IF x.n > 100 * x.d THEN [n |-> 100, d |-> 1] ELSE x)
  ELSE (IF x.n < 15 * x.d THEN [n |-> 15, d |-> 1] ELSE x)

\* The return of lines 109-111 for band i (from 1) of n bands at the position
\* num / den of the band
bandScore(hib, n, i, num, den) ==
  LET s0 == IF hib THEN ST[i] ELSE ST[n - i + 1]
      s1 == IF hib THEN ST[Min({i + 1, n})] ELSE ST[Max({n - i, 1})]
  IN clampScore([n |-> s0 * den + num * (s1 - s0), d |-> den], hib)

\* The return of line 113 for a value in no band: above is val > R[n-1].hi,
\* below is val < R[0].lo
offBandsZero(hib, above, below) == [n |-> 0, d |-> 1]
offBands(hib, above, below) ==
  IF hib THEN [n |-> IF above THEN 100 ELSE 15, d |-> 1]
  ELSE [n |-> IF below THEN 100 ELSE 15, d |-> 1]

getScore(id, val, sx, e) ==
  LET m == getM(id, sx, e)
  IN IF m.null \/ val = Undef THEN Null
     ELSE LET R == m.ranges
              n == Len(R)
              hib == m.higherIsBetter
              B == {i \in 1..n : val >= R[i].lo /\ (IF i = n THEN val <= R[i].hi ELSE val < R[i + 1].lo)}
          IN IF B # {}
             THEN LET i == Min(B)
                      r == R[i]
                  IN IF r.hi > r.lo THEN bandScore(hib, n, i, val - r.lo, r.hi - r.lo)
                     ELSE bandScore(hib, n, i, 0, 1)
             ELSE offBands(hib, val > R[n].hi, val < R[1].lo)

\* ---- KDM_P (lines 138-146): k in hundredths, q and s in tenths
KDM_P(id, sx) ==
  CASE id = "vo2max" /\ sx = "male" -> [k |-> 0 - 46, q |-> 600, s |-> 75]
    [] id = "vo2max" -> [k |-> 0 - 38, q |-> 490, s |-> 60]
    [] id = "rhr" -> [k |-> 7, q |-> 672, s |-> 105]
    [] id = "bp" -> [k |-> 45, q |-> 1048, s |-> 150]
    [] id = "glucose" -> [k |-> 28, q |-> 780, s |-> 130]
    [] id = "bodyfat" /\ sx = "male" -> [k |-> 25, q |-> 80, s |-> 65]
    [] id = "bodyfat" -> [k |-> 30, q |-> 155, s |-> 70]
    [] OTHER -> [k |-> 0, q |-> 0, s |-> 1]

KDM_S_BA == 7

RECURSIVE gcd(_, _)
gcd(a, b) == IF b = 0 THEN a ELSE gcd(b, a % b)

\* Math.max(CA - 20, Math.min(CA + 20, x)), in tenths of a year, and a variant
\* that returns x
unclamped(CA, tenths) == tenths
clampBA(CA, tenths) == Max({10 * (CA - 20), Min({10 * (CA + 20), tenths})})

\* _kdm(valMap, CA, sex) (lines 149-160): Null, or the estimate in tenths of a
\* year.  A value v of a metric with slope k, intercept q and deviation s adds
\* (v - q) / k * (k * k) / (s * s) = (v - q) * k / (s * s) to sumWI and
\* k * k / (s * s) to sumW.  Each addend is reduced to lowest terms and the
\* sums are taken exactly, as numerators over the common denominator L.
kdm(valMap, CA, sx) ==
  LET used == SelectSeq(valMap, LAMBDA x : KDM_P(x.k, sx).k # 0 /\ x.v # Undef)
      n == Len(used)
      p(j) == KDM_P(used[j].k, sx)
      abs(x) == IF x < 0 THEN 0 - x ELSE x
      lcm(a, b) == (a \div gcd(a, b)) * b
      ss(j) == 100 * p(j).s * p(j).s
      in(j) == (used[j].v - 10 * p(j).q) * p(j).k
      ig(j) == gcd(abs(in(j)), ss(j))
      wn(j) == p(j).k * p(j).k
      wg(j) == gcd(wn(j), ss(j))
      L == LET RECURSIVE all(_)
               all(j) == IF j = 0 THEN KDM_S_BA * KDM_S_BA
                         ELSE lcm(lcm(all(j - 1), ss(j) \div ig(j)), ss(j) \div wg(j))
           IN all(n)
      sumWI == SumSeq([j \in 1..n |-> (in(j) \div ig(j)) * (L \div (ss(j) \div ig(j)))])
      sumW == SumSeq([j \in 1..n |-> (wn(j) \div wg(j)) * (L \div (ss(j) \div wg(j)))])
      wCA == L \div (KDM_S_BA * KDM_S_BA)
      num == sumWI + CA * wCA
      dnm == sumW + wCA
      tenths == 10 * (abs(num) \div dnm) + Round(10 * (abs(num) % dnm), dnm)
      BA == IF num < 0 THEN 0 - tenths ELSE tenths
  IN IF n = 0 THEN Null ELSE [n |-> clampBA(CA, BA), d |-> 10]

\* getBioAge(entries, age, sex) (lines 162-166): the value of the first of the
\* entries of each metric that carry its latest date
getBioAge(es, a, sx) ==
  LET latest(id) ==
        LET S == {i \in 1..Len(es) : es[i].metricId = id}
            top == {i \in S : \A j \in S : es[j].date <= es[i].date}
        IN IF S = {} THEN <<>> ELSE <<[k |-> id, v |-> es[Min(top)].value]>>
  IN kdm(Concat([m \in 1..Len(MK) |-> latest(MK[m])]), a, sx)

\* ---- getHypoBioAge (lines 169-182)
\* entries.filter(e => e.metricId === id).sort((a, b) => b.date.localeCompare(a.date))[0]:
\* the index of the first of the entries of the metric that carry its latest
\* date, 0 when the metric has no entry
latestOf(es, id) ==
  LET S == {i \in 1..Len(es) : es[i].metricId = id}
      top == {i \in S : \A j \in S : es[j].date <= es[i].date}
  IN IF S = {} THEN 0 ELSE Min(top)

\* The value map with targetId at m.opt.max when higher is better and at
\* m.opt.min when lower is better (line 175), and a variant that takes
\* m.opt.max for every metric
hypoAtOptMax(es, a, sx, e, targetId) ==
  LET val(id) == IF id = targetId THEN <<[k |-> id, v |-> getM(id, sx, e).opt.max]>>
                 ELSE IF latestOf(es, id) = 0 THEN <<>>
                 ELSE <<[k |-> id, v |-> es[latestOf(es, id)].value]>>
  IN kdm(Concat([m \in 1..Len(MK) |-> val(MK[m])]), a, sx)

getHypoBioAge(es, a, sx, e, targetId) ==
  LET val(id) ==
        IF id = targetId
        THEN LET m == getM(id, sx, e)
             IN <<[k |-> id, v |-> IF m.higherIsBetter THEN m.opt.max ELSE m.opt.min]>>
        ELSE IF latestOf(es, id) = 0 THEN <<>>
        ELSE <<[k |-> id, v |-> es[latestOf(es, id)].value]>>
  IN kdm(Concat([m \in 1..Len(MK) |-> val(MK[m])]), a, sx)

\* ---- the impact ranking (lines 846-860 and 662-675)
\* curBA != null && hypBA != null ? +(curBA - hypBA).toFixed(1) : 0, in tenths
gainOf(cur, hyp) == IF cur # Null /\ hyp # Null THEN cur.n - hyp.n ELSE 0

\* rows.sort((a, b) => b.gain - a.gain): by gain descending, rows of equal
\* gain in their order in rows; and a variant that puts a row before the
\* rows of equal gain that precede it
RECURSIVE sortTiesReversed(_)
sortTiesReversed(rows) ==
  IF rows = <<>> THEN <<>>
  ELSE LET rest == sortTiesReversed(SubSeq(rows, 1, Len(rows) - 1))
           x == rows[Len(rows)]
           before == SelectSeq(rest, LAMBDA r : r.gain > x.gain)
           after == SelectSeq(rest, LAMBDA r : r.gain <= x.gain)
       IN before \o <<x>> \o after

RECURSIVE sortByGain(_)
sortByGain(rows) ==
  IF rows = <<>> THEN <<>>
  ELSE LET rest == sortByGain(SubSeq(rows, 1, Len(rows) - 1))
           x == rows[Len(rows)]
           before == SelectSeq(rest, LAMBDA r : r.gain >= x.gain)
           after == SelectSeq(rest, LAMBDA r : r.gain < x.gain)
       IN before \o <<x>> \o after

\* One row of the ranking: the metric, its score and its gain
impactRow(es, a, sx, e, id) ==
  [id |-> id, sc |-> getScore(id, es[latestOf(es, id)].value, sx, e),
   gain |-> gainOf(getBioAge(es, a, sx), getHypoBioAge(es, a, sx, e, id))]

\* MK.map(id => ...) (lines 848-858, 664-672): a row for every metric with an
\* entry, in the order of MK
impactRows(es, a, sx, e) ==
  Concat([m \in 1..Len(MK) |->
    IF latestOf(es, MK[m]) = 0 THEN <<>> ELSE <<impactRow(es, a, sx, e, MK[m])>>])

\* impacts.slice(0, 3) (line 897)
slice3(rows) == SubSeq(rows, 1, Min({3, Len(rows)}))

\* ImpactPanel's impacts (lines 848-860): the rows, sorted
impactsOf(rows) == sortByGain(rows)
impacts(es, a, sx, e) ==
  CHOOSE sorted \in {impactsOf(rows) : rows \in {impactRows(es, a, sx, e)}} : TRUE

\* renderSnapshot's topImpacts (lines 663-675): the rows of the metrics whose
\* latest entry has a score, sorted and cut to three
topImpactsOf(rows) == slice3(sortByGain(SelectSeq(rows, LAMBDA r : r.sc # Null)))
topImpacts(es, a, sx, e) ==
  CHOOSE top \in {topImpactsOf(rows) : rows \in {impactRows(es, a, sx, e)}} : TRUE

IdleScore == call = [fn |-> "none"] /\ ret = Null

\* ======================= one call of parseAH / parseGF =======================

CHUNK == 65536
LOOKBACK == 32768
WritableHWM == 1

\* ---- inputs
selfClosing(c) == <<"<", "R", c, "/", ">">>
paired(c) == <<"<", "R", c, ">", "x", "E", ">">>

\* A record whose content is a long run of text, and the beginning of such a
\* record without its end tag
longPaired(c) == <<"<", "R", c, ">", "w", "E", ">">>
unclosed(c) == <<"<", "R", c, ">", "w">>

Items ==
  {selfClosing("a"), selfClosing("c"), selfClosing("y"), selfClosing("z"),
   selfClosing("n"), selfClosing("q"), selfClosing("d"), paired("g"), <<" ">>, <<"sM", "b">>,
   longPaired("c"), unclosed("a")}

\* The number of characters a symbol stands for: "R" is the word Record, "E"
\* is </Record, "w" is a run of LongRun characters
LongRun == 40000
width(c) == CASE c = "w" -> LongRun [] c = "R" -> 6 [] c = "E" -> 8 [] OTHER -> 1

\* The length of a text in characters
RECURSIVE chars(_)
chars(t) == IF t = <<>> THEN 0 ELSE width(Head(t)) + chars(Tail(t))

SeqsUpTo(S, n) == UNION {[1..k -> S] : k \in 0..n}

Texts == {Concat(s) : s \in SeqsUpTo(Items, MaxItems)}

CompLens == {(n - 1) * CHUNK + r : n \in 1..MaxChunks, r \in {1, CHUNK}}

\* What parseAH reads of a ZIP before it reaches the data: whether the EOCD
\* scan finds a signature, whether the central directory names export.xml,
\* whether the local header carries its signature, and the compression method.
\* Every text comes as a raw XML file, as a stored entry and as a deflated
\* entry of one chunk; the longer compressed lengths come with one record.
AHFiles ==
  [kind : {"xml"}, eocd : {TRUE}, entry : {TRUE}, lfh : {TRUE}, compression : {0},
   text : Texts, compLen : {1}]
  \cup [kind : {"zip"}, eocd : {TRUE}, entry : {TRUE}, lfh : {TRUE}, compression : {0, 12},
        text : Texts, compLen : {1}]
  \cup [kind : {"zip"}, eocd : {TRUE}, entry : {TRUE}, lfh : {TRUE}, compression : {8},
        text : Texts, compLen : {CHUNK}]
  \cup [kind : {"zip"}, eocd : {TRUE}, entry : {TRUE}, lfh : {TRUE}, compression : {8},
        text : {selfClosing("a")}, compLen : CompLens]
  \cup [kind : {"zip"}, eocd : BOOLEAN, entry : BOOLEAN, lfh : BOOLEAN, compression : {8},
        text : {<<>>}, compLen : {1}]

\* What parseGF reads of a ZIP before its file loop: the EOCD scan and the
\* number of central-directory entries its filter selects.
GFFiles ==
  [kind : {"gf"}, eocd : BOOLEAN, entry : {TRUE}, lfh : {TRUE}, compression : {0},
   text : {<<>>}, compLen : 0..MaxFiles]

\* Data points of Google Fit JSON files
GFPoints ==
  {[dtn |-> "com.google.blood_pressure", ns |-> 1, fv |-> <<[fpVal |-> 12040, intVal |-> Undef], [fpVal |-> 8000, intVal |-> Undef]>>],
   [dtn |-> "com.google.blood_pressure", ns |-> 1, fv |-> <<[fpVal |-> 12000, intVal |-> Undef], [fpVal |-> 8500, intVal |-> Undef]>>],
   [dtn |-> "com.google.blood_pressure", ns |-> 1, fv |-> <<[fpVal |-> 13000, intVal |-> Undef]>>],
   [dtn |-> "com.google.heart_rate.bpm", ns |-> 1, fv |-> <<[fpVal |-> 6000, intVal |-> Undef]>>],
   [dtn |-> "", ns |-> 2, fv |-> <<[fpVal |-> Undef, intVal |-> 7100]>>],
   [dtn |-> "com.google.step_count.delta", ns |-> 1, fv |-> <<[fpVal |-> Undef, intVal |-> 900000]>>]}

\* One selected file of a Google archive: its name, local-header signature,
\* compression method, whether its deflate stream inflates, and its JSON.
\* The files the loop skips or fails on come with one content.
GFJson == [ok : {TRUE}, pts : SeqsUpTo(GFPoints, MaxPts)] \cup [ok : {FALSE}, pts : {<<>>}]

GFEntries ==
  [fname : {"heart_rate", "other"}, lfh : {TRUE}, compression : {0, 8}, inflates : {TRUE},
   json : GFJson]
  \cup [fname : {"other"}, lfh : {FALSE}, compression : {0}, inflates : {TRUE},
        json : {[ok |-> TRUE, pts |-> <<>>]}]
  \cup [fname : {"other"}, lfh : {TRUE}, compression : {8, 12}, inflates : {FALSE},
        json : {[ok |-> TRUE, pts |-> <<>>]}]

noResult == [status |-> "none", err |-> "", entries |-> <<>>, dSex |-> "", dDOB |-> ""]
thrown(msg) == [status |-> "error", err |-> msg, entries |-> <<>>, dSex |-> "", dDOB |-> ""]
returned(es, m) == [status |-> "ok", err |-> "", entries |-> es, dSex |-> m.dSex, dDOB |-> m.dDOB]

\* ---- parseAH and parseGF as functions of the file
\* The error parseAH throws before it reads the entry's data, or "" (lines 272,
\* 314, 317, 362)
archiveError(f) ==
  IF f.kind # "zip" THEN ""
  ELSE IF ~f.eocd THEN "Not a valid ZIP file - EOCD record not found."
  ELSE IF ~f.entry THEN "Could not find export.xml inside the ZIP."
  ELSE IF ~f.lfh THEN "Invalid local file header."
  ELSE IF f.compression \notin {0, 8} THEN unsupportedMsg(f.compression)
  ELSE ""

\* parseAH on a raw XML file or a stored entry, where proc is called once on
\* the whole text (lines 324, 366, 369-379)
parseAH(f) ==
  IF archiveError(f) # "" THEN thrown(archiveError(f))
  ELSE LET es == assembleAH(proc(f.text, emptyAH).acc)
       IN IF es = <<>> THEN thrown("No matching records found.")
          ELSE returned(es, exMeta(f.text, noMeta))

\* One pass of parseGF's loop (lines 495-514): a file with a bad local header
\* or an unknown compression method is skipped, a deflate stream that does not
\* inflate throws
fitFile(a, e) ==
  IF ~e.lfh THEN [acc |-> a, err |-> ""]
  ELSE IF e.compression = 0 THEN [acc |-> procJSON(a, e.json, e.fname), err |-> ""]
  ELSE IF e.compression = 8
  THEN IF e.inflates THEN [acc |-> procJSON(a, e.json, e.fname), err |-> ""]
       ELSE [acc |-> a, err |-> "DecompressionStream error"]
  ELSE [acc |-> a, err |-> ""]

RECURSIVE fitFiles(_, _)
fitFiles(a, files) ==
  IF files = <<>> THEN [acc |-> a, err |-> ""]
  ELSE LET r == fitFile(a, Head(files))
       IN IF r.err # "" THEN r ELSE fitFiles(r.acc, Tail(files))

\* parseGF on an archive whose filter selects the files f.gfiles
parseGF(f) ==
  IF ~f.eocd THEN thrown("Not a valid ZIP file.")
  ELSE IF f.gfiles = <<>> THEN thrown("No Google Fit data files found.")
  ELSE LET r == fitFiles(emptyGF, f.gfiles)
       IN IF r.err # "" THEN thrown(r.err)
          ELSE IF assembleGF(r.acc) = <<>> THEN thrown("No matching health records found.")
          ELSE returned(assembleGF(r.acc), noMeta)

\* isGoogleFitZip (lines 395-412): some local header in the first 2 MB names a
\* file that contains "fit" and ends in ".json"
isGoogleFitZip(f) == f.kind # "xml" /\ f.fit

\* ======================= BioAgeTracker and ImportPanel =======================

\* ---- bounds of a session
MaxLogs == 2       \* entries logged by hand
MaxSubmits == 2    \* files handed to process()
MaxEdits == 2      \* edits of a preference or of a form field

Today == [year |-> 2026, day |-> 1]

\* new Date(dDOB).getFullYear()
dobYear(dob) == IF dob = "b" THEN 1990 ELSE 0

PrefKeys == {"ba6_age", "ba6_sex", "ba6_eth"}

\* What the browser's storage may hold at startup: nothing, or the values an
\* earlier session left, a stored entry list among them
oldEntry ==
  [id |-> <<"ts", 0>>, metricId |-> "rhr", value |-> 6000, secondary |-> Undef,
   date |-> 1, note |-> ""]

StorageInits ==
  {[ba6_age |-> Undef, ba6_sex |-> "", ba6_eth |-> "", ba6_entries |-> <<>>],
   [ba6_age |-> 30, ba6_sex |-> "male", ba6_eth |-> "south_asian", ba6_entries |-> <<oldEntry>>]}

\* ---- the files a user drops on the panel
userFile(kind, eocd, entry, text, fit, gfiles) ==
  [kind |-> kind, eocd |-> eocd, entry |-> entry, lfh |-> TRUE, compression |-> 0,
   text |-> text, fit |-> fit, gfiles |-> gfiles]

fitJson(fname, pts) ==
  [fname |-> fname, lfh |-> TRUE, compression |-> 0, inflates |-> TRUE,
   json |-> [ok |-> TRUE, pts |-> pts]]

bpPoint(sys) ==
  [dtn |-> "com.google.blood_pressure", ns |-> 1,
   fv |-> <<[fpVal |-> sys, intVal |-> Undef], [fpVal |-> 8000, intVal |-> Undef]>>]

UserFiles ==
  {userFile("xml", TRUE, TRUE, <<"sM", "b">> \o selfClosing("a"), FALSE, <<>>),
   userFile("zip", FALSE, FALSE, <<>>, FALSE, <<>>),
   userFile("zip", TRUE, TRUE, <<>>, TRUE,
            <<fitJson("blood_pressure", <<bpPoint(12000)>>), fitJson("blood_pressure", <<bpPoint(13000)>>)>>)}

\* ---- handleImport (lines 1485-1492)
manualOf(es) == SelectSeq(es, LAMBDA e : e.note # "Apple Health" /\ e.note # "Google Fit")

\* merged.findIndex(e => e.metricId === x.metricId && e.date === x.date), from 1; 0 for -1
findIndex(merged, x) ==
  LET S == {i \in 1..Len(merged) : merged[i].metricId = x.metricId /\ merged[i].date = x.date}
  IN IF S = {} THEN 0 ELSE Min(S)

RECURSIVE mergeEach(_, _)
mergeEach(merged, ne) ==
  IF ne = <<>> THEN merged
  ELSE LET i == findIndex(merged, Head(ne))
       IN mergeEach(IF i > 0 THEN [merged EXCEPT ![i] = Head(ne)] ELSE Append(merged, Head(ne)),
                    Tail(ne))

\* A variant of the merge that pushes every new entry
mergedKeepAll(es, ne) == manualOf(es) \o ne

\* The collection handleImport passes to persist
mergedEntries(es, ne) == mergeEach(manualOf(es), ne)

\* ---- persist (line 1483): the storage writes it makes
persistStores(es) == {"ba6_entries"}
persist(es) == {}

\* ---- logEntry (lines 1497-1502)
newEntry(f, t) ==
  [id |-> <<"ts", t>>, metricId |-> f.metricId, value |-> f.value,
   secondary |-> IF f.secondary # Undef THEN f.secondary ELSE Undef,
   date |-> f.date, note |-> f.note]

\* An entry of the same metric and date is overwritten
logReplacing(es, x) ==
  IF findIndex(es, x) > 0 THEN [es EXCEPT ![findIndex(es, x)] = x] ELSE Append(es, x)

\* A variant of the log that puts the new entry first
logPrepend(es, x) == <<x>> \o es

\* [...entries, x]
logAppend(es, x) == Append(es, x)

\* ---- ImportPanel.process (lines 1001-1012)
\* The catch clause: setErr(e.message); setStep("instructions")
catchToPreview(msg) == [err |-> msg, step |-> "preview"]
catchStep(msg) == [err |-> msg, step |-> "instructions"]

\* The drop zone and the file input are part of the instructions screen, which
\* is rendered unless the done, the loading or the preview screen is
canSubmitAnyStep(st, pv) == TRUE
canSubmit(st, pv) == st \notin {"done", "loading"} /\ ~(st = "preview" /\ pv.status = "ok")

noPreview == [status |-> "none", entries |-> <<>>, dSex |-> "", dDOB |-> "", source |-> ""]

\* {...r, source: isGF ? "Google Fit" : "Apple Health"}
previewOf(r, isGF) ==
  [status |-> "ok", entries |-> r.entries, dSex |-> r.dSex, dDOB |-> r.dDOB,
   source |-> IF isGF THEN "Google Fit" ELSE "Apple Health"]

\* What a call of process() will get from its parser
outcome(t) == IF t.isGF THEN parseGF(t.f) ELSE parseAH(t.f)

initForm ==
  [metricId |-> "vo2max", value |-> Undef, secondary |-> Undef, date |-> Today.day, note |-> ""]

\* The state of a freshly mounted ImportPanel (lines 993-998)
InitPanel ==
  /\ step = "instructions" /\ platform = "apple" /\ prog = 0
  /\ preview = noPreview /\ err = ""

\* The state of BioAgeTracker after its first render (lines 1462-1473)
InitApp ==
  /\ entries = <<>>
  /\ age = 40 /\ sex = "female" /\ eth = "general"
  /\ form = initForm /\ saved = FALSE
  /\ showImport = FALSE /\ InitPanel /\ tasks = <<>>
  /\ setKeys = {} /\ restorePc = 0
  /\ now = 0 /\ nLogs = 0 /\ nSubmits = 0 /\ nEdits = 0

InitStream ==
  /\ wpc = "loop" /\ written = 0 /\ wq = <<>> /\ rq = <<>> /\ backpressure = TRUE
  /\ decoded = 0 /\ rclosed = FALSE /\ rpc = "loop" /\ textBuf = <<>> /\ firstChunk = TRUE

\* One call of a parser, outside any session
InitImport ==
  /\ InitApp /\ storage \in {s \in StorageInits : s.ba6_sex = ""}
  /\ file \in AHFiles \cup GFFiles
  /\ ipc = "open"
  /\ acc = IF file.kind = "gf" THEN emptyGF ELSE emptyAH
  /\ meta = noMeta
  /\ InitStream
  /\ gfi = 0
  /\ progLog = {}
  /\ result = noResult
  /\ IdleZip /\ IdleScore

streamVars == <<wpc, written, wq, rq, backpressure, decoded, rclosed, rpc, textBuf, firstChunk>>

\* ---- parseAH up to the compression dispatch (lines 252-324, 361-367)
AHOpen ==
  /\ ipc = "open" /\ file.kind \in {"xml", "zip"}
  /\ UNCHANGED <<file, streamVars, gfi, progLog>>
  /\ IF archiveError(file) # ""
     THEN /\ ipc' = "thrown" /\ result' = thrown(archiveError(file))
          /\ UNCHANGED <<acc, meta>>
     ELSE IF file.kind = "zip" /\ file.compression = 8
     THEN /\ ipc' = "stream" /\ UNCHANGED <<acc, meta, result>>
     ELSE /\ meta' = exMeta(file.text, meta)
          /\ acc' = proc(file.text, acc).acc
          /\ ipc' = "assemble" /\ UNCHANGED result
  /\ UNCHANGED <<appVars, zipVars, scoreVars>>

\* ---- writeLoop (lines 335-342)
chunkEnd(w, len) == IF w + CHUNK < len THEN w + CHUNK ELSE len

\* await writer.write(...): the write has settled once the stream has taken
\* the chunk off the writable side's queue and transformed it
writeNotAwaited(q, end) == TRUE
writeSettled(q, end) == \A i \in 1..Len(q) : q[i] # end

WriteCall ==
  /\ ipc = "stream" /\ wpc = "loop" /\ written < file.compLen
  /\ wq' = Append(wq, chunkEnd(written, file.compLen))
  /\ wpc' = "awaitWrite"
  /\ UNCHANGED <<file, ipc, acc, meta, written, rq, backpressure, decoded, rclosed, rpc,
                 textBuf, firstChunk, gfi, progLog, result>>
  /\ UNCHANGED <<appVars, zipVars, scoreVars>>

WriteSettle ==
  /\ ipc = "stream" /\ wpc = "awaitWrite"
  /\ writeSettled(wq, chunkEnd(written, file.compLen))
  /\ written' = chunkEnd(written, file.compLen)
  /\ wpc' = "loop"
  /\ UNCHANGED <<file, ipc, acc, meta, wq, rq, backpressure, decoded, rclosed, rpc,
                 textBuf, firstChunk, gfi, progLog, result>>
  /\ UNCHANGED <<appVars, zipVars, scoreVars>>

WriterClose ==
  /\ ipc = "stream" /\ wpc = "loop" /\ written >= file.compLen
  /\ wpc' = "awaitClose"
  /\ UNCHANGED <<file, ipc, acc, meta, written, wq, rq, backpressure, decoded, rclosed, rpc,
                 textBuf, firstChunk, gfi, progLog, result>>
  /\ UNCHANGED <<appVars, zipVars, scoreVars>>

\* ---- the DecompressionStream (line 328): a transform stream with the default
\* queuing strategies.  It transforms the next queued chunk once the readable
\* side has been pulled, emits the text that chunk decodes to in at most MaxOut
\* pieces, and applies backpressure again as soon as it has enqueued output.
\* The sets of at most k cut positions in lo..hi
RECURSIVE cutSets(_, _, _)
cutSets(lo, hi, k) ==
  IF k = 0 THEN {{}}
  ELSE {{}} \cup UNION {{{c} \cup cs : cs \in cutSets(c + 1, hi, k - 1)} : c \in lo..hi}

RECURSIVE pieces(_, _, _)
pieces(from, cuts, src) ==
  IF cuts = {} THEN <<>>
  ELSE LET c == Min(cuts)
       IN <<[from |-> from, to |-> c, src |-> src]>> \o pieces(c + 1, cuts \ {c}, src)

Transform ==
  /\ ipc = "stream" /\ wq # <<>> /\ ~backpressure
  /\ \E cuts \in cutSets(decoded + 1, Len(file.text), MaxOut) :
       /\ rq' = rq \o pieces(decoded + 1, cuts, Head(wq))
       /\ decoded' = IF cuts = {} THEN decoded ELSE Max(cuts)
       /\ backpressure' = (cuts # {})
  /\ wq' = Tail(wq)
  /\ UNCHANGED <<file, ipc, acc, meta, wpc, written, rclosed, rpc, textBuf, firstChunk,
                 gfi, progLog, result>>
  /\ UNCHANGED <<appVars, zipVars, scoreVars>>

\* A variant of the flush that leaves the readable side open
FlushKeepsOpen ==
  /\ ipc = "stream" /\ wpc = "awaitClose" /\ wq = <<>>
  /\ rq' = IF decoded < Len(file.text)
           THEN Append(rq, [from |-> decoded + 1, to |-> Len(file.text), src |-> 0])
           ELSE rq
  /\ decoded' = Len(file.text)
  /\ wpc' = "done"
  /\ UNCHANGED <<file, ipc, acc, meta, written, wq, backpressure, rclosed, rpc, textBuf,
                 firstChunk, gfi, progLog, result>>
  /\ UNCHANGED <<appVars, zipVars, scoreVars>>

\* writer.close(): after the queued writes, the stream flushes what is left
\* of the text and closes the readable side
Flush ==
  /\ ipc = "stream" /\ wpc = "awaitClose" /\ wq = <<>>
  /\ rq' = IF decoded < Len(file.text)
           THEN Append(rq, [from |-> decoded + 1, to |-> Len(file.text), src |-> 0])
           ELSE rq
  /\ decoded' = Len(file.text)
  /\ rclosed' = TRUE
  /\ wpc' = "done"
  /\ UNCHANGED <<file, ipc, acc, meta, written, wq, backpressure, rpc, textBuf, firstChunk,
                 gfi, progLog, result>>
  /\ UNCHANGED <<appVars, zipVars, scoreVars>>

\* ---- readLoop (lines 344-358)
\* textBuf.lastIndexOf("<Record", fromIndex), as a 0-based index or -1
lastIndexOf(buf, fromIndex) ==
  LET S == {p \in 1..(Len(buf) - 1) : buf[p] = "<" /\ buf[p + 1] = "R" /\ p - 1 <= fromIndex}
  IN IF S = {} THEN 0 - 1 ELSE Max(S) - 1

\* textBuf = (ti !== -1 && ti > le - 32768) ? textBuf.slice(ti) : "", where ti
\* and le are positions between symbols and are compared as character offsets
trim(buf, le) ==
  LET ti == lastIndexOf(buf, le)
  IN IF ti # 0 - 1 /\ chars(SubSeq(buf, 1, ti)) > chars(SubSeq(buf, 1, le)) - LOOKBACK
     THEN SubSeq(buf, ti + 1, Len(buf)) ELSE <<>>

\* Math.round((written / compSlice.length) * 100), without the cap
progressUncapped(w, len) == Round(w * 100, len)

\* Math.min(99, Math.round((written / compSlice.length) * 100))
progressAH(w, len) == IF Round(w * 100, len) < 99 THEN Round(w * 100, len) ELSE 99

\* reader.read() with nothing queued: the read waits, and the pending read
\* pulls the stream, which releases its backpressure
ReaderPull ==
  /\ ipc = "stream" /\ rpc = "loop" /\ rq = <<>> /\ ~rclosed
  /\ rpc' = "waiting"
  /\ backpressure' = FALSE
  /\ UNCHANGED <<file, ipc, acc, meta, wpc, written, wq, rq, decoded, rclosed,
                 textBuf, firstChunk, gfi, progLog, result>>
  /\ UNCHANGED <<appVars, zipVars, scoreVars>>

\* One pass of the loop body for a decoded chunk
ReadChunk ==
  /\ ipc = "stream" /\ rpc \in {"loop", "waiting"} /\ rq # <<>>
  /\ LET chunk == SubSeq(file.text, Head(rq).from, Head(rq).to)
         buf == textBuf \o chunk
         r == proc(buf, acc)
     IN /\ meta' = IF firstChunk THEN exMeta(chunk, meta) ELSE meta
        /\ firstChunk' = FALSE
        /\ acc' = r.acc
        /\ textBuf' = trim(buf, r.last)
        /\ progLog' = progLog \cup {progressAH(written, file.compLen)}
  /\ rq' = Tail(rq)
  /\ rpc' = "loop"
  /\ UNCHANGED <<file, ipc, wpc, written, wq, backpressure, decoded, rclosed, gfi, result>>
  /\ UNCHANGED <<appVars, zipVars, scoreVars>>

\* done: the decoder's final flush is empty, so nothing more is processed
ReadDone ==
  /\ ipc = "stream" /\ rpc \in {"loop", "waiting"} /\ rq = <<>> /\ rclosed
  /\ rpc' = "done"
  /\ UNCHANGED <<file, ipc, acc, meta, wpc, written, wq, rq, backpressure, decoded, rclosed,
                 textBuf, firstChunk, gfi, progLog, result>>
  /\ UNCHANGED <<appVars, zipVars, scoreVars>>

\* await Promise.all([writeLoop(), readLoop()]) (line 360)
AHJoin ==
  /\ ipc = "stream" /\ wpc = "done" /\ rpc = "done"
  /\ ipc' = "assemble"
  /\ UNCHANGED <<file, acc, meta, streamVars, gfi, progLog, result>>
  /\ UNCHANGED <<appVars, zipVars, scoreVars>>

\* ---- parseAH: result assembly (lines 369-379), and a variant that returns
\* whether or not there are entries
AHAssembleLax ==
  /\ ipc = "assemble" /\ file.kind \in {"xml", "zip"}
  /\ ipc' = "returned" /\ result' = returned(assembleAH(acc), meta)
  /\ UNCHANGED <<file, acc, meta, streamVars, gfi, progLog>>
  /\ UNCHANGED <<appVars, zipVars, scoreVars>>

AHAssemble ==
  /\ ipc = "assemble" /\ file.kind \in {"xml", "zip"}
  /\ LET es == assembleAH(acc)
     IN IF es = <<>>
        THEN ipc' = "thrown" /\ result' = thrown("No matching records found.")
        ELSE ipc' = "returned" /\ result' = returned(es, meta)
  /\ UNCHANGED <<file, acc, meta, streamVars, gfi, progLog>>
  /\ UNCHANGED <<appVars, zipVars, scoreVars>>

\* ---- parseGF (lines 452-528)
\* Math.min(95, Math.round((i / fitFiles.length) * 95))
progressGF(i, n) == IF Round(i * 95, n) < 95 THEN Round(i * 95, n) ELSE 95

GFOpen ==
  /\ ipc = "open" /\ file.kind = "gf"
  /\ IF ~file.eocd
     THEN ipc' = "thrown" /\ result' = thrown("Not a valid ZIP file.")
     ELSE IF file.compLen = 0
     THEN ipc' = "thrown" /\ result' = thrown("No Google Fit data files found.")
     ELSE ipc' = "gfloop" /\ UNCHANGED result
  /\ UNCHANGED <<file, acc, meta, streamVars, gfi, progLog>>
  /\ UNCHANGED <<appVars, zipVars, scoreVars>>

\* One pass of the per-file loop (lines 492-515) over the file e
GFFile(e) ==
  /\ ipc = "gfloop" /\ gfi < file.compLen
  /\ progLog' = progLog \cup {progressGF(gfi, file.compLen)}
  /\ LET r == fitFile(acc, e)
     IN IF r.err # ""
        THEN ipc' = "thrown" /\ result' = thrown(r.err) /\ UNCHANGED <<acc, gfi>>
        ELSE gfi' = gfi + 1 /\ acc' = r.acc /\ UNCHANGED <<ipc, result>>
  /\ UNCHANGED <<file, meta, streamVars>>
  /\ UNCHANGED <<appVars, zipVars, scoreVars>>

GFAssemble ==
  /\ ipc = "gfloop" /\ gfi >= file.compLen
  /\ LET es == assembleGF(acc)
     IN IF es = <<>>
        THEN ipc' = "thrown" /\ result' = thrown("No matching health records found.")
        ELSE ipc' = "returned" /\ result' = returned(es, noMeta)
  /\ UNCHANGED <<file, acc, meta, streamVars, gfi, progLog>>
  /\ UNCHANGED <<appVars, zipVars, scoreVars>>

NextImport ==
  \/ AHOpen
  \/ WriteCall
  \/ WriteSettle
  \/ WriterClose
  \/ Transform
  \/ Flush
  \/ ReaderPull
  \/ ReadChunk
  \/ ReadDone
  \/ AHJoin
  \/ AHAssemble
  \/ GFOpen
  \/ \E e \in GFEntries : GFFile(e)
  \/ GFAssemble

SpecImport == InitImport /\ [][NextImport]_vars

\* The event loop runs every continuation that is ready, and the stream
\* transforms a queued chunk and flushes once it may: weak fairness of every
\* step of the deflate path (lines 335-360).  ReadChunk changes rq whenever
\* its guard holds, so its guard is ENABLED <<ReadChunk>>_vars and the last
\* conjunct is WF_vars(ReadChunk) written out.
ReadChunkReady == ipc = "stream" /\ rpc \in {"loop", "waiting"} /\ rq # <<>>

FairStream ==
  /\ WF_vars(WriteCall) /\ WF_vars(WriteSettle) /\ WF_vars(WriterClose)
  /\ WF_vars(Transform) /\ WF_vars(Flush)
  /\ WF_vars(ReaderPull) /\ WF_vars(ReadDone) /\ WF_vars(AHJoin)
  /\ ([]<>(~ReadChunkReady) \/ []<><<ReadChunk>>_vars)

SpecImportFair == InitImport /\ [][NextImport]_vars /\ FairStream

\* ======================= a session of the application =======================

\* The parser variables of SpecImport play no part in a session
IdleImport ==
  /\ file = userFile("xml", TRUE, TRUE, <<>>, FALSE, <<>>) /\ ipc = "idle"
  /\ acc = emptyAH /\ meta = noMeta /\ InitStream
  /\ gfi = 0 /\ progLog = {} /\ result = noResult

Init == InitApp /\ storage \in StorageInits /\ IdleImport /\ IdleZip /\ IdleScore

prefVars == <<age, sex, eth>>
panelVars == <<showImport, step, platform, prog, preview, err, tasks, nSubmits>>
logVars == <<entries, form, saved, now, nLogs>>
storeVars == <<storage, setKeys>>

\* ---- inputs of a session
Sexes == {"female", "male"}
AgeInputs == {30}
EthIds == {"general", "south_asian"}
FormMetrics == {"vo2max", "bp"}
FormDates == {1, 2}
FormValues == {Undef, 0, 4500}
FormSecondaries == {Undef, 8000}
FormNotes == {"", "Apple Health"}

\* ---- the startup effect (lines 1475-1480): one storage.get after another,
\* each restoring its preference when the stored value is truthy
RestoreStep ==
  /\ restorePc < 3
  /\ restorePc' = restorePc + 1
  /\ age' = IF restorePc = 0 /\ storage.ba6_age # Undef THEN storage.ba6_age ELSE age
  /\ sex' = IF restorePc = 1 /\ storage.ba6_sex # "" THEN storage.ba6_sex ELSE sex
  /\ eth' = IF restorePc = 2 /\ storage.ba6_eth # "" THEN storage.ba6_eth ELSE eth
  /\ UNCHANGED <<logVars, panelVars, storeVars, nEdits, importVars, zipVars, scoreVars>>

\* A storage.get that rejects ends the effect (catch{})
RestoreFail ==
  /\ restorePc < 3
  /\ restorePc' = 3
  /\ UNCHANGED <<prefVars, logVars, panelVars, storeVars, nEdits, importVars, zipVars, scoreVars>>

\* ---- the dashboard.  The ImportPanel is a full-window overlay above it, so
\* its controls are used while the panel is not shown.
\* The sex buttons (line 1626)
SetSex(s) ==
  /\ ~showImport /\ nEdits < MaxEdits
  /\ sex' = s
  /\ storage' = [storage EXCEPT !.ba6_sex = s]
  /\ setKeys' = setKeys \cup {"ba6_sex"}
  /\ nEdits' = nEdits + 1
  /\ UNCHANGED <<age, eth, logVars, panelVars, restorePc, importVars, zipVars, scoreVars>>

\* The age input (line 1647)
SetAge(a) ==
  /\ ~showImport /\ nEdits < MaxEdits
  /\ age' = a
  /\ storage' = [storage EXCEPT !.ba6_age = a]
  /\ setKeys' = setKeys \cup {"ba6_age"}
  /\ nEdits' = nEdits + 1
  /\ UNCHANGED <<sex, eth, logVars, panelVars, restorePc, importVars, zipVars, scoreVars>>

\* EthModal's setEth (lines 1603, 1620)
SetEth(e) ==
  /\ ~showImport /\ nEdits < MaxEdits
  /\ eth' = e
  /\ storage' = [storage EXCEPT !.ba6_eth = e]
  /\ setKeys' = setKeys \cup {"ba6_eth"}
  /\ nEdits' = nEdits + 1
  /\ UNCHANGED <<age, sex, logVars, panelVars, restorePc, importVars, zipVars, scoreVars>>

\* A change of one field of the log form (lines 1668-1676); the diastolic
\* input is shown for blood pressure alone
SetForm(k, v) ==
  /\ ~showImport /\ nEdits < MaxEdits
  /\ form[k] # v
  /\ k = "secondary" => form.metricId = "bp"
  /\ form' = [form EXCEPT ![k] = v]
  /\ nEdits' = nEdits + 1
  /\ UNCHANGED <<entries, saved, now, nLogs, prefVars, panelVars, storeVars,
                 restorePc, importVars, zipVars, scoreVars>>

\* logEntry (lines 1497-1502); two clicks are more than a millisecond apart,
\* so Date.now() has advanced
LogEntry ==
  /\ ~showImport
  /\ IF form.value = Undef
     THEN UNCHANGED <<logVars, storeVars>>
     ELSE /\ nLogs < MaxLogs
          /\ now' = now + 1
          /\ entries' = logAppend(entries, newEntry(form, now'))
          /\ setKeys' = setKeys \cup persist(entries')
          /\ storage' = IF "ba6_entries" \in persist(entries')
                        THEN [storage EXCEPT !.ba6_entries = entries'] ELSE storage
          /\ saved' = TRUE
          /\ form' = [form EXCEPT !.value = Undef, !.secondary = Undef, !.note = ""]
          /\ nLogs' = nLogs + 1
  /\ UNCHANGED <<prefVars, panelVars, restorePc, nEdits, importVars, zipVars, scoreVars>>

\* setTimeout(() => setSaved(false), 2000): the first pending timer fires
SavedTimeout ==
  /\ saved
  /\ saved' = FALSE
  /\ UNCHANGED <<entries, form, now, nLogs, prefVars, panelVars, storeVars, restorePc,
                 nEdits, importVars, zipVars, scoreVars>>

\* ---- the ImportPanel
\* An Import button (lines 1607, 1631, 1661) mounts the panel, in its initial state
OpenImport ==
  /\ ~showImport
  /\ showImport' = TRUE
  /\ UNCHANGED <<step, platform, prog, preview, err, tasks, nSubmits, prefVars, logVars,
                 storeVars, restorePc, nEdits, importVars, zipVars, scoreVars>>

\* onClose: the close and Cancel buttons of the instructions and preview
\* screens, Back to Dashboard of the done screen; the loading screen has none.
\* The panel is unmounted and its state is dropped: the next panel starts from
\* the initial state (lines 993-998), and a call of process() still running
\* has no panel left to update.
ClosePanel ==
  /\ showImport /\ step # "loading"
  /\ showImport' = FALSE
  /\ step' = "instructions" /\ platform' = "apple" /\ prog' = 0
  /\ preview' = noPreview /\ err' = ""
  /\ tasks' = [i \in 1..Len(tasks) |-> [tasks[i] EXCEPT !.orphan = TRUE]]
  /\ UNCHANGED <<nSubmits, prefVars, logVars, storeVars, restorePc, nEdits, importVars, zipVars, scoreVars>>

\* The platform tabs (lines 1088-1089)
SetPlatform(p) ==
  /\ showImport /\ canSubmit(step, preview)
  /\ platform # p
  /\ platform' = p
  /\ UNCHANGED <<showImport, step, prog, preview, err, tasks, nSubmits, prefVars, logVars,
                 storeVars, restorePc, nEdits, importVars, zipVars, scoreVars>>

\* A file dropped or chosen: process(f) up to its first await (lines 1002-1006)
Submit(f) ==
  /\ showImport /\ canSubmit(step, preview)
  /\ nSubmits < MaxSubmits
  /\ err' = "" /\ step' = "loading" /\ prog' = 0
  /\ tasks' = Append(tasks, [f |-> f, stage |-> IF f.kind = "xml" THEN "parse" ELSE "detect",
                             isGF |-> FALSE, orphan |-> FALSE])
  /\ nSubmits' = nSubmits + 1
  /\ UNCHANGED <<showImport, platform, preview, prefVars, logVars, storeVars, restorePc,
                 nEdits, importVars, zipVars, scoreVars>>

\* isGF = await isGoogleFitZip(f); if (isGF) setPlatform("google") (lines 1006-1007)
Detect(i) ==
  /\ tasks[i].stage = "detect"
  /\ tasks' = [tasks EXCEPT ![i].stage = "parse", ![i].isGF = isGoogleFitZip(tasks[i].f)]
  /\ platform' = IF isGoogleFitZip(tasks[i].f) /\ ~tasks[i].orphan THEN "google" ELSE platform
  /\ UNCHANGED <<showImport, step, prog, preview, err, nSubmits, prefVars, logVars, storeVars,
                 restorePc, nEdits, importVars, zipVars, scoreVars>>

\* The progress callback p => setProg(p) (line 1008), with a value parseGF reports
Progress(i, k) ==
  /\ tasks[i].stage = "parse" /\ tasks[i].isGF /\ ~tasks[i].orphan
  /\ tasks[i].f.eocd /\ k < Len(tasks[i].f.gfiles)
  /\ prog' = progressGF(k, Len(tasks[i].f.gfiles))
  /\ UNCHANGED <<showImport, step, platform, preview, err, tasks, nSubmits, prefVars, logVars,
                 storeVars, restorePc, nEdits, importVars, zipVars, scoreVars>>

\* The parser returns: setPreview({...r, source}); setStep("preview") (lines 1009-1010)
ParseReturn(i) ==
  /\ tasks[i].stage = "parse" /\ outcome(tasks[i]).status = "ok"
  /\ tasks' = SubSeq(tasks, 1, i - 1) \o SubSeq(tasks, i + 1, Len(tasks))
  /\ IF tasks[i].orphan
     THEN UNCHANGED <<preview, step>>
     ELSE preview' = previewOf(outcome(tasks[i]), tasks[i].isGF) /\ step' = "preview"
  /\ UNCHANGED <<showImport, platform, prog, err, nSubmits, prefVars, logVars, storeVars,
                 restorePc, nEdits, importVars, zipVars, scoreVars>>

\* The parser throws: the catch clause (line 1011)
ParseThrow(i) ==
  /\ tasks[i].stage = "parse" /\ outcome(tasks[i]).status = "error"
  /\ tasks' = SubSeq(tasks, 1, i - 1) \o SubSeq(tasks, i + 1, Len(tasks))
  /\ IF tasks[i].orphan
     THEN UNCHANGED <<err, step>>
     ELSE /\ err' = catchStep(outcome(tasks[i]).err).err
          /\ step' = catchStep(outcome(tasks[i]).err).step
  /\ UNCHANGED <<showImport, platform, prog, preview, nSubmits, prefVars, logVars, storeVars,
                 restorePc, nEdits, importVars, zipVars, scoreVars>>

\* Confirm Import (line 1064): onImport(preview), that is handleImport (lines
\* 1485-1492), then setStep("done")
Confirm ==
  /\ showImport /\ step = "preview" /\ preview.status = "ok"
  /\ entries' = mergedEntries(entries, preview.entries)
  /\ sex' = IF preview.dSex # "" THEN preview.dSex ELSE sex
  /\ age' = IF preview.dDOB # "" THEN Today.year - dobYear(preview.dDOB) ELSE age
  /\ storage' =
       [storage EXCEPT
          !.ba6_sex = IF preview.dSex # "" THEN preview.dSex ELSE @,
          !.ba6_age = IF preview.dDOB # "" THEN Today.year - dobYear(preview.dDOB) ELSE @,
          !.ba6_entries = IF "ba6_entries" \in persist(entries') THEN entries' ELSE @]
  /\ setKeys' = setKeys \cup persist(entries')
                  \cup (IF preview.dSex # "" THEN {"ba6_sex"} ELSE {})
                  \cup (IF preview.dDOB # "" THEN {"ba6_age"} ELSE {})
  /\ step' = "done"
  /\ UNCHANGED <<eth, form, saved, now, nLogs, showImport, platform, prog, preview,
                 err, tasks, nSubmits, restorePc, nEdits, importVars, zipVars, scoreVars>>

\* Start Over (line 1065)
StartOver ==
  /\ showImport /\ step = "preview" /\ preview.status = "ok"
  /\ step' = "instructions"
  /\ UNCHANGED <<showImport, platform, prog, preview, err, tasks, nSubmits, prefVars, logVars,
                 storeVars, restorePc, nEdits, importVars, zipVars, scoreVars>>

Next ==
  \/ RestoreStep
  \/ RestoreFail
  \/ \E s \in Sexes : SetSex(s)
  \/ \E a \in AgeInputs : SetAge(a)
  \/ \E e \in EthIds : SetEth(e)
  \/ \E m \in FormMetrics : SetForm("metricId", m)
  \/ \E d \in FormDates : SetForm("date", d)
  \/ \E v \in FormValues : SetForm("value", v)
  \/ \E v \in FormSecondaries : SetForm("secondary", v)
  \/ \E n \in FormNotes : SetForm("note", n)
  \/ LogEntry
  \/ SavedTimeout
  \/ OpenImport
  \/ ClosePanel
  \/ \E p \in {"apple", "google"} : SetPlatform(p)
  \/ \E f \in UserFiles : Submit(f)
  \/ \E i \in 1..Len(tasks) : Detect(i)
  \/ \E i \in 1..Len(tasks) : \E k \in 0..(MaxFiles - 1) : Progress(i, k)
  \/ \E i \in 1..Len(tasks) : ParseReturn(i)
  \/ \E i \in 1..Len(tasks) : ParseThrow(i)
  \/ Confirm
  \/ StartOver

Spec == Init /\ [][Next]_vars

\* ======================= reading an archive, step by step =======================

\* Neither a session nor a streaming import is under way
IdleApp ==
  /\ InitApp
  /\ storage = [ba6_age |-> Undef, ba6_sex |-> "", ba6_eth |-> "", ba6_entries |-> <<>>]

InitZip ==
  /\ IdleApp /\ IdleImport /\ IdleScore
  /\ zfn \in {"parseAH", "parseGF"}
  /\ ab \in ZipBuffers
  /\ zpc = "eocd" /\ zloc = noLocals /\ zout = noOutput

\* throw new Error(msg), or the RangeError of a read outside the buffer
zthrow(msg) == zpc' = "thrown" /\ zout' = [zout EXCEPT !.err = msg] /\ UNCHANGED zloc

\* 1. the EOCD scan (lines 268-272, 456-460).  The dash of parseAH's message
\* is written in ASCII.
ZFindEOCD ==
  /\ zpc = "eocd"
  /\ LET eocd == findEOCD(ab)
     IN IF eocd = 0 - 1
        THEN zthrow(IF zfn = "parseAH" THEN "Not a valid ZIP file - EOCD record not found."
                    ELSE "Not a valid ZIP file.")
        ELSE zpc' = "cd" /\ zloc' = [zloc EXCEPT !.eocd = eocd] /\ UNCHANGED zout
  /\ UNCHANGED <<zfn, ab, importVars, appVars, scoreVars>>

\* 2. cdOffset and cdSize (lines 275, 461)
ZCentralDir ==
  /\ zpc = "cd"
  /\ zloc' = [zloc EXCEPT !.cdOffset = uint(ab, zloc.eocd + 16, 4),
                          !.cdSize = uint(ab, zloc.eocd + 12, 4),
                          !.pos = uint(ab, zloc.eocd + 16, 4)]
  /\ zpc' = "scan"
  /\ UNCHANGED <<zfn, ab, zout, importVars, appVars, scoreVars>>

\* 3. one pass of the scan of the central directory, or its end (lines 288-314,
\* 468-489)
ZScan ==
  /\ zpc = "scan"
  /\ LET pos == zloc.pos
         more == pos < zloc.cdOffset + zloc.cdSize
     IN IF more /\ ~inRange(ab, pos, 4) THEN zthrow("RangeError")
        ELSE IF more /\ sigAt(ab, pos, Sig("central"))
        THEN IF ~inRange(ab, pos, 46) THEN zthrow("RangeError")
             ELSE LET r == cdRecord(ab, pos)
                  IN IF zfn = "parseAH"
                     THEN IF isExportXml(r.fname)
                          THEN zpc' = "local" /\ zloc' = [zloc EXCEPT !.entry = <<r>>]
                               /\ UNCHANGED zout
                          ELSE zloc' = [zloc EXCEPT !.pos = r.next] /\ UNCHANGED <<zpc, zout>>
                     ELSE /\ zloc' = [zloc EXCEPT !.pos = r.next,
                                        !.fitFiles = IF isFitFile(r) THEN Append(@, r) ELSE @]
                          /\ UNCHANGED <<zpc, zout>>
        ELSE IF zfn = "parseAH" THEN zthrow("Could not find export.xml inside the ZIP.")
        ELSE IF zloc.fitFiles = <<>> THEN zthrow("No Google Fit data files found.")
        ELSE zpc' = "files" /\ UNCHANGED <<zloc, zout>>
  /\ UNCHANGED <<zfn, ab, importVars, appVars, scoreVars>>

\* 4. parseAH: the local header and the compression dispatch (lines 317-363).
\* The stored slice is decoded and handed to exMeta and proc, the deflated one
\* is written to the DecompressionStream.
ZLocal ==
  /\ zpc = "local"
  /\ LET e == zloc.entry[1]
         d == localData(ab, e)
     IN IF d.err # "" THEN zthrow(d.err)
        ELSE IF d.bad THEN zthrow("Invalid local file header.")
        ELSE IF e.compression \in {0, 8}
        THEN /\ zout' = [zout EXCEPT !.handed = <<[range |-> d.slice, method |-> e.compression]>>]
             /\ zpc' = "done" /\ UNCHANGED zloc
        ELSE zthrow(unsupportedMsg(e.compression))
  /\ UNCHANGED <<zfn, ab, importVars, appVars, scoreVars>>

\* 5. parseGF: one pass of the per-file loop (lines 492-515).  A file whose
\* local header lacks the signature, or whose method is neither 0 nor 8, is
\* passed over with `continue`.
ZFile ==
  /\ zpc = "files" /\ zloc.i < Len(zloc.fitFiles)
  /\ LET e == zloc.fitFiles[zloc.i + 1]
         d == localData(ab, e)
     IN IF d.err # "" THEN zthrow(d.err)
        ELSE /\ zloc' = [zloc EXCEPT !.i = @ + 1]
             /\ zout' = IF ~d.bad /\ e.compression \in {0, 8}
                        THEN [zout EXCEPT !.handed =
                                Append(@, [range |-> d.slice, method |-> e.compression])]
                        ELSE zout
             /\ UNCHANGED zpc
  /\ UNCHANGED <<zfn, ab, importVars, appVars, scoreVars>>

\* The loop has passed every file: the texts handed to procJSON are aggregated
ZFilesDone ==
  /\ zpc = "files" /\ zloc.i >= Len(zloc.fitFiles)
  /\ zpc' = "done"
  /\ UNCHANGED <<zfn, ab, zloc, zout, importVars, appVars, scoreVars>>

NextZip ==
  \/ ZFindEOCD
  \/ ZCentralDir
  \/ ZScan
  \/ ZLocal
  \/ ZFile
  \/ ZFilesDone

SpecZip == InitZip /\ [][NextZip]_vars

\* ======================= calls of the scoring functions =======================

\* The arguments of getScore: every metric and an unknown one; for each the
\* values at, just below and just above every band bound, the middle of every
\* band, values far outside the bands, and no value
ScoreIds == {MK[i] : i \in 1..Len(MK)} \cup {"steps"}

ScoreValues(id, sx) ==
  LET R == MB(IF id = "steps" THEN "vo2max" ELSE id)[sx].ranges
      bs == {R[i].lo : i \in 1..4} \cup {R[4].hi}
  IN UNION {{b - 1, b, b + 1} : b \in bs}
     \cup {(R[i].lo + R[i].hi) \div 2 : i \in 1..4}
     \cup {Undef, 0, 0 - 100, 100000}

\* The arguments of getBioAge: entry lists without a metric of KDM_P, with one
\* metric at an ordinary or an extreme value, with two dates of one metric in
\* either order, with two metrics, with an entry that has no value, and with
\* every metric.  The values are
\* multiples of 0.1, and every metric at once comes with sex female: the exact
\* sums then stay within 32-bit integers.
KdmArgs ==
  LET e(m, v, d) == [id |-> <<"ts", d>>, metricId |-> m, value |-> v, secondary |-> Undef,
                     date |-> d, note |-> ""]
      usual(m) == CASE m = "vo2max" -> 4000 [] m = "rhr" -> 6000 [] m = "bp" -> 12000
                    [] m = "glucose" -> 9000 [] m = "bodyfat" -> 2500
      lists == {<<>>, <<e("steps", 500000, 1)>>,
                <<e("bp", 12000, 1), e("bp", 40000, 2)>>, <<e("bp", 40000, 2), e("bp", 12000, 1)>>,
                <<e("steps", 500000, 2), e("vo2max", 8000, 1)>>,
                <<e("bp", 40000, 1), e("vo2max", 1000, 1)>>,
                <<e("bp", Undef, 1)>>, <<e("bp", Undef, 2), e("bp", 12000, 1)>>,
                <<e("bp", 12000, 2), e("bp", Undef, 1)>>}
               \cup {<<e(MK[m], v, 1)>> : m \in 1..Len(MK), v \in {0, 0 - 5000, 100000}}
               \cup {<<e(MK[m], usual(MK[m]), 1)>> : m \in 1..Len(MK)}
  IN (lists \X {10, 40, 90} \X Sexes)
     \cup ({[m \in 1..Len(MK) |-> e(MK[m], usual(MK[m]), 1)]} \X {10, 40, 90} \X {"female"})

\* The arguments of the impact ranking: entries of one to five metrics, at
\* values worse than, at and better than the optimal boundary, with an extreme
\* value that drives the estimate to its limit, and with two entries of one
\* metric.  Lists that combine VO2 max with other metrics come with sex
\* female (32-bit sums).
ImpactArgs ==
  LET e(m, v, d) == [id |-> <<"ts", d>>, metricId |-> m, value |-> v, secondary |-> Undef,
                     date |-> d, note |-> ""]
      either == {<<e("vo2max", 5000, 1)>>, <<e("vo2max", 4000, 1)>>, <<e("rhr", 6500, 1)>>,
                 <<e("bodyfat", 1200, 1)>>,
                 <<e("bp", 14000, 1), e("bp", 11000, 2)>>,
                 <<e("bp", 11000, 2), e("bp", 14000, 2)>>,
                 <<e("rhr", 6000, 1), e("bp", 12000, 1), e("glucose", 9000, 1)>>,
                 <<e("rhr", 4000, 1), e("bp", 9000, 1), e("glucose", 6000, 1), e("bodyfat", 1400, 1)>>,
                 <<e("bp", 40000, 1), e("rhr", 6000, 1), e("glucose", 9000, 1), e("bodyfat", 2500, 1)>>,
                 <<e("glucose", 8200, 1), e("bodyfat", 1800, 1), e("bp", 11800, 1)>>}
      womens == {<<e("vo2max", 4000, 1), e("rhr", 6000, 1), e("bp", 12000, 1),
                   e("glucose", 9000, 1), e("bodyfat", 2500, 1)>>,
                 <<e("rhr", 4000, 1), e("bp", 9000, 1), e("glucose", 6000, 1),
                   e("bodyfat", 1400, 1), e("vo2max", 4400, 1)>>,
                 <<e("vo2max", 5000, 1), e("rhr", 6000, 1), e("bp", 14000, 1), e("glucose", 7000, 1)>>}
  IN (either \X {10, 40, 90} \X Sexes \X EthAll)
     \cup (womens \X {10, 40, 90} \X {"female"} \X EthAll)

InitScore == IdleApp /\ IdleImport /\ IdleZip /\ IdleScore

ScoreCall(id, val, sx, e) ==
  /\ call.fn = "none"
  /\ call' = [fn |-> "getScore", id |-> id, val |-> val, sex |-> sx, eth |-> e]
  /\ ret' = getScore(id, val, sx, e)
  /\ UNCHANGED <<importVars, appVars, zipVars>>

BioAgeCall(es, a, sx) ==
  /\ call.fn = "none"
  /\ call' = [fn |-> "getBioAge", entries |-> es, age |-> a, sex |-> sx]
  /\ ret' = getBioAge(es, a, sx)
  /\ UNCHANGED <<importVars, appVars, zipVars>>

\* One rendering of ImpactPanel and of renderSnapshot on the same arguments
ImpactCall(es, a, sx, e) ==
  /\ call.fn = "none"
  /\ call' = [fn |-> "impacts", entries |-> es, age |-> a, sex |-> sx, eth |-> e]
  /\ \E curBA \in {getBioAge(es, a, sx)}, rows \in {impactRows(es, a, sx, e)} :
       ret' = [n |-> curBA.n, d |-> curBA.d, impacts |-> impactsOf(rows),
               plan |-> slice3(impactsOf(rows)), topImpacts |-> topImpactsOf(rows)]
  /\ UNCHANGED <<importVars, appVars, zipVars>>

NextScore ==
  \/ \E id \in ScoreIds, sx \in Sexes, e \in EthAll :
       \E val \in ScoreValues(id, sx) : ScoreCall(id, val, sx, e)
  \/ \E a \in KdmArgs : BioAgeCall(a[1], a[2], a[3])
  \/ \E a \in ImpactArgs : ImpactCall(a[1], a[2], a[3], a[4])

SpecScore == InitScore /\ [][NextScore]_vars

\* ============================== claims ==============================

\* What one call of proc on the whole decoded text yields
wholeEntries(text) == assembleAH(proc(text, emptyAH).acc)

\* C1 (as claimed): when the deflate streaming path has finished, the entries
\* assembled from its accumulators are those of one call of proc on the whole
\* text, however the text was split into chunks.
C1_StreamEqualsWhole ==
  (ipc = "assemble" /\ file.kind = "zip" /\ file.compression = 8)
    => assembleAH(acc) = wholeEntries(file.text)

C7_DistinctIds ==
  result.status = "ok" =>
    \A i, j \in 1..Len(result.entries) :
      result.entries[i].id = result.entries[j].id => i = j

\* The chunks handed to writer.write whose output the reader has not consumed:
\* those still queued on the writable side and those with decoded output queued
chunksAhead == Len(wq) + Cardinality({rq[i].src : i \in 1..Len(rq)} \ {0})

\* C8: during deflate streaming at most WritableHWM chunks are queued on the
\* writable side and at most WritableHWM + 1 chunks have been written without
\* the reader having consumed their output, in every interleaving.
C8_WriterBoundedAhead ==
  /\ Len(wq) <= WritableHWM
  /\ chunksAhead <= WritableHWM + 1

\* The writer is ahead by the full capacity: one chunk queued, one chunk's output unread
C8_WriterAtCapacity == ipc = "stream" /\ chunksAhead = WritableHWM + 1

\* C10: every value passed to the progress callback by parseAH and parseGF is
\* an integer from 0 to 99; 100 is never passed.
C10_ProgressBelow100 == \A p \in progLog : p \in 0..99

\* parseAH has reported progress after the writer had written the whole slice
C10_CapReached == file.kind = "zip" /\ written = file.compLen /\ 99 \in progLog

\* C2: a parser that throws delivers nothing: the step that handles the throw
\* leaves the entry collection, sex and age unchanged and takes the panel from
\* "loading" to "instructions" with the error message set; and while the
\* panel is shown the entry collection changes only by Confirm Import on the
\* preview of a parse that returned.
C2_ThrowDeliversNothing ==
  [][/\ (\E i \in 1..Len(tasks) : ParseThrow(i)) =>
          /\ entries' = entries /\ sex' = sex /\ age' = age
          /\ step = "loading" /\ step' = "instructions" /\ err' # ""
     /\ (showImport /\ entries' # entries) =>
          /\ step = "preview" /\ preview.status = "ok" /\ step' = "done"
          /\ entries' = mergedEntries(entries, preview.entries)]_vars

\* The panel shows the instructions with the message of a parser that threw
C2_ErrorShown == showImport /\ step = "instructions" /\ err # "" /\ tasks = <<>>

\* C3 (as claimed): handleImport removes or replaces an entry of the
\* collection only if the import has an entry of the same source (note),
\* metricId and date; every other entry is still present afterwards.
C3_ImportKeepsOthers ==
  [][Confirm =>
       \A i \in 1..Len(entries) :
         (~\E j \in 1..Len(preview.entries) :
             /\ preview.entries[j].note = entries[i].note
             /\ preview.entries[j].metricId = entries[i].metricId
             /\ preview.entries[j].date = entries[i].date)
           => \E k \in 1..Len(entries') : entries'[k] = entries[i]]_vars

\* C4: entries are never written to storage: the keys passed to storage.set
\* are among ba6_age, ba6_sex and ba6_eth, the stored entry list is the one the
\* session found, and the collection is empty until something is logged or a
\* file is submitted, whatever the storage holds.
C4_EntriesNeverStored ==
  /\ setKeys \subseteq PrefKeys
  /\ storage.ba6_entries \in {s.ba6_entries : s \in StorageInits}
  /\ (nLogs = 0 /\ nSubmits = 0) => entries = <<>>

\* A session that found stored entries has logged, imported and saved every preference
C4_LoggedImportedSaved ==
  /\ nLogs > 0 /\ step = "done" /\ entries # <<>>
  /\ setKeys = PrefKeys /\ storage.ba6_entries # <<>>

\* C5: logEntry with a non-empty value appends one entry built from the form
\* and leaves the existing entries as they are, whether or not an entry of
\* that metric and date is present; with an empty value nothing changes.
C5_LogAppendsOne ==
  [][LogEntry =>
       IF form.value # Undef
       THEN /\ Len(entries') = Len(entries) + 1
            /\ SubSeq(entries', 1, Len(entries)) = entries
            /\ entries'[Len(entries')].metricId = form.metricId
            /\ entries'[Len(entries')].date = form.date
            /\ entries'[Len(entries')].value = form.value
       ELSE entries' = entries]_vars

\* The last entry was logged by hand while an entry of its metric and date was present
C5_LoggedOverExisting ==
  /\ Len(entries) >= 2
  /\ entries[Len(entries)].id[1] = "ts"
  /\ \E i \in 1..(Len(entries) - 1) :
       /\ entries[i].metricId = entries[Len(entries)].metricId
       /\ entries[i].date = entries[Len(entries)].date

\* C9: at most one call of process() is in flight; one is in flight exactly
\* while the panel is shown at step "loading".
C9_OneParseInFlight ==
  /\ Len(tasks) <= 1
  /\ tasks # <<>> <=> (showImport /\ step = "loading")
  /\ \A i \in 1..Len(tasks) : ~tasks[i].orphan

\* A second file is being parsed after the first parse has finished
C9_SecondParse == Len(tasks) = 1 /\ nSubmits = 2 /\ tasks[1].stage = "parse"

\* ---------------------------- C11 .. C20 ----------------------------

\* C11: once the EOCD scan of parseAH or parseGF is over, the import has
\* failed with the archive-format error exactly when no EOCD signature
\* 50 4b 05 06 starts at an offset in [max(0, length - 65558), length - 22];
\* every buffer shorter than 22 bytes fails so.
C11_ArchiveErrorIffNoSignature ==
  zpc \notin {"idle", "eocd"} =>
    LET failed == zout.err = (IF zfn = "parseAH"
                              THEN "Not a valid ZIP file - EOCD record not found."
                              ELSE "Not a valid ZIP file.")
        found == \E o \in Max({0, ab.len - 65558})..(ab.len - 22) :
                   /\ byteAt(ab, o) = 80 /\ byteAt(ab, o + 1) = 75
                   /\ byteAt(ab, o + 2) = 5 /\ byteAt(ab, o + 3) = 6
    IN /\ failed <=> ~found
       /\ ab.len < 22 => failed

\* C11 witness: an import has failed with the archive-format error on a buffer
\* that holds a signature one byte below the window.
C11_SignatureBelowWindow ==
  /\ zpc = "thrown" /\ zout.err = "Not a valid ZIP file."
  /\ ab.len > 65558 /\ sigAt(ab, ab.len - 65559, Sig("eocd"))

C13_BadEntryStopsImport ==
  LET badEntry(e) == ~sigAt(ab, e.localOff, Sig("local")) \/ e.compression \notin {0, 8}
  IN /\ (zfn = "parseGF" /\ zpc \in {"files", "done"}) =>
          \A j \in 1..zloc.i : ~badEntry(zloc.fitFiles[j])
     /\ (zfn = "parseAH" /\ zpc = "done") => ~badEntry(zloc.entry[1])

\* C14: a call that was not stopped by an archive or decompression error
\* returns exactly when the assembled entry list is not empty, what it returns
\* is that list, and otherwise it throws the no-matching-records error of its
\* parser; no call returns an empty list.
C14_SuccessIffEntries ==
  LET isGF == file.kind = "gf"
      es == IF isGF THEN assembleGF(acc) ELSE assembleAH(acc)
      processed == IF isGF THEN file.eocd /\ file.compLen > 0 /\ gfi >= file.compLen
                   ELSE archiveError(file) = ""
  IN /\ result.status = "ok" => result.entries # <<>>
     /\ (ipc \in {"returned", "thrown"} /\ processed) =>
          IF es # <<>> THEN ipc = "returned" /\ result.status = "ok" /\ result.entries = es
          ELSE /\ ipc = "thrown" /\ result.status = "error"
               /\ result.err = (IF isGF THEN "No matching health records found."
                                ELSE "No matching records found.")

\* C14 witness: an export whose only records are a step count and a record
\* without a value has been read to its end and rejected.
C14_OnlyUnrecognizedRecords ==
  /\ ipc = "thrown" /\ result.err = "No matching records found."
  /\ file.text = selfClosing("n") \o selfClosing("q")

\* C15 (as claimed): on every archive that holds a single stored export.xml
\* with an intact local header and nothing after the EOCD record and its
\* comment, parseAH ends by handing on exactly one range, which starts
\* 30 + name length + extra length after the local header, is as long as the
\* central directory's compressed size, and holds the content byte for byte.
C15_StoredRangeIsContent ==
  (zfn = "parseAH" /\ zpc \in {"done", "thrown"} /\ Len(ab.src.files) = 1 /\ ab.src.pad = 0
     /\ ab.src.files[1].name = utf8("export.xml") /\ ab.src.files[1].method = 0
     /\ ab.src.files[1].lsig) =>
    /\ zpc = "done" /\ Len(zout.handed) = 1
    /\ zout.handed[1].range = contentRange(ab.src, 1)
    /\ zout.handed[1].range.end - zout.handed[1].range.start = zloc.entry[1].compSize
    /\ bytesOf(ab, zout.handed[1].range) = ab.src.files[1].content

\* C16 (as claimed): when a parseAH call has ended, its result holds for each
\* date exactly one blood-pressure entry if the text has a systolic record of
\* that date with a non-zero value (with the last systolic as value and the
\* last diastolic, if any, as secondary) and none otherwise, however the
\* text was split into chunks.
C16_OneBPEntryPerDate ==
  (ipc \in {"returned", "thrown"} /\ file.kind \in {"xml", "zip"} /\ archiveError(file) = "") =>
    LET W == proc(file.text, emptyAH).acc
        bpOn(d) == SelectSeq(result.entries, LAMBDA x : x.metricId = "bp" /\ x.date = d)
    IN \A d \in {1, 2} :
         IF Get(W.bpS, d, 0) # 0
         THEN /\ Len(bpOn(d)) = 1
              /\ bpOn(d)[1].value = Get(W.bpS, d, 0)
              /\ bpOn(d)[1].secondary = Get(W.bpD, d, Undef)
         ELSE bpOn(d) = <<>>

\* C17: getScore returns null exactly when the value is absent or the metric
\* is unknown, and otherwise a number from 15 to 100, whatever the value.
C17_ScoreInRangeOrNull ==
  call.fn = "getScore" =>
    IF call.val = Undef \/ call.id \notin {"vo2max", "rhr", "bp", "glucose", "bodyfat"}
    THEN ret = Null
    ELSE ret.d > 0 /\ 15 * ret.d <= ret.n /\ ret.n <= 100 * ret.d

\* C17 witness: getScore was called with a value far above every band of a
\* metric for which lower is better, and returned 15.
C17_FarOutsideBands ==
  /\ call.fn = "getScore" /\ call.id = "bp" /\ call.val = 100000
  /\ ret = [n |-> 15, d |-> 1]

\* C18: at a value equal to a band bound getScore returns one of 15, 45, 72,
\* 100; the band below, taken at its upper end, gives the same score, and
\* the score one hundredth below the bound is less than one point away.
C18_AnchorsAtBounds ==
  (call.fn = "getScore" /\ call.id \in {"vo2max", "rhr", "bp", "glucose", "bodyfat"}) =>
    LET base == MB(call.id)
        R == base[call.sex].ranges
        near == getScore(call.id, call.val - 1, call.sex, call.eth)
        gap == near.n * ret.d - ret.n * near.d
    IN \A i \in 1..5 :
         call.val = (IF i = 5 THEN R[4].hi ELSE R[i].lo) =>
           /\ \E a \in {15, 45, 72, 100} : ret.n = a * ret.d
           /\ i \in 2..4 =>
                LET below == bandScore(base.higherIsBetter, 4, i - 1,
                                       R[i - 1].hi - R[i - 1].lo, R[i - 1].hi - R[i - 1].lo)
                IN below.n * ret.d = ret.n * below.d
           /\ i >= 2 => (gap < near.d * ret.d /\ 0 - gap < near.d * ret.d)

\* C18 witness: getScore was called at the bound 31.5 between the second and
\* third band of VO2 max (female) and returned 72.
C18_AtInnerBound ==
  /\ call.fn = "getScore" /\ call.id = "vo2max" /\ call.sex = "female" /\ call.val = 3150
  /\ ret.n = 72 * ret.d

\* C19: the score getScore returned is the score it returns for the same
\* metric, value and sex under every ethnicity, and the bands getM returns
\* are the same under every ethnicity.
C19_ScoreIgnoresEthnicity ==
  call.fn = "getScore" =>
    \A e \in EthAll :
      /\ getScore(call.id, call.val, call.sex, e) = ret
      /\ ret # Null => getM(call.id, call.sex, e).ranges = getM(call.id, call.sex, "general").ranges

\* C19 witness: a score was computed under an ethnicity whose adjustment
\* changes the optimal range of the metric.
C19_AdjustedMetricScored ==
  /\ call.fn = "getScore" /\ call.eth = "south_asian" /\ call.id = "glucose" /\ ret # Null
  /\ getM("glucose", call.sex, "south_asian").opt.max = 8000
  /\ getM("glucose", call.sex, "general").opt.max = 8500

\* C20: getBioAge returns null exactly when no metric with regression
\* parameters and a non-zero slope has a value in its latest entry, and
\* otherwise an estimate within 20 years of the chronological age, whatever
\* the values.
C20_BioAgeClampedOrNull ==
  call.fn = "getBioAge" =>
    IF \E i \in 1..Len(call.entries) :
         /\ call.entries[i].metricId \in {"vo2max", "rhr", "bp", "glucose", "bodyfat"}
         /\ call.entries[i].value # Undef
         /\ \A j \in 1..Len(call.entries) :
              call.entries[j].metricId = call.entries[i].metricId =>
                \/ call.entries[j].date < call.entries[i].date
                \/ call.entries[j].date = call.entries[i].date /\ j >= i
    THEN ret.d = 10 /\ 10 * (call.age - 20) <= ret.n /\ ret.n <= 10 * (call.age + 20)
    ELSE ret = Null

\* C20 witness: an extreme value has driven the estimate to the upper limit.
C20_ClampedAbove ==
  /\ call.fn = "getBioAge" /\ Len(call.entries) = 1 /\ call.entries[1].value = 100000
  /\ ret = [n |-> 10 * (call.age + 20), d |-> 10]

\* ---------------------------- C21 .. C30 ----------------------------

\* C21 (as claimed): no row of the impact ranking, in ImpactPanel or in
\* renderSnapshot, has a negative gain.
C21_GainNeverNegative ==
  call.fn = "impacts" =>
    /\ \A i \in 1..Len(ret.impacts) : ret.impacts[i].gain >= 0
    /\ \A i \in 1..Len(ret.topImpacts) : ret.topImpacts[i].gain >= 0

\* C22: the impact list has one row for every metric with an entry and no
\* other; a row of greater gain comes before one of smaller gain and rows of
\* equal gain are in the order vo2max, rhr, bp, glucose, bodyfat; the plan of
\* ImpactPanel and the rows of renderSnapshot are the first three rows of the
\* list, or all of them when there are fewer.
C22_RankedStableTopThree ==
  call.fn = "impacts" =>
    LET rows == ret.impacts
        order(id) == CHOOSE k \in 1..5 : <<"vo2max", "rhr", "bp", "glucose", "bodyfat">>[k] = id
        first3 == [i \in 1..(IF Len(rows) < 3 THEN Len(rows) ELSE 3) |-> rows[i]]
    IN /\ \A id \in {"vo2max", "rhr", "bp", "glucose", "bodyfat"} :
            Cardinality({i \in 1..Len(rows) : rows[i].id = id})
              = (IF \E j \in 1..Len(call.entries) : call.entries[j].metricId = id THEN 1 ELSE 0)
       /\ \A i \in 1..Len(rows) : rows[i].id \in {"vo2max", "rhr", "bp", "glucose", "bodyfat"}
       /\ \A i, j \in 1..Len(rows) :
            i < j => \/ rows[i].gain > rows[j].gain
                     \/ rows[i].gain = rows[j].gain /\ order(rows[i].id) < order(rows[j].id)
       /\ ret.plan = first3
       /\ ret.topImpacts = first3

\* C22 witness: a ranking of four rows was cut to three, two of which have the
\* same gain.
C22_TieAmongFour ==
  /\ call.fn = "impacts" /\ Len(ret.impacts) = 4 /\ Len(ret.plan) = 3
  /\ ret.impacts[2].gain = ret.impacts[3].gain
  /\ ret.impacts[1].gain > ret.impacts[2].gain

\* C30: the bio age, the hypothetical bio age of every metric with an entry,
\* every gain and the order of the ranking that a rendering computed are those
\* computed from the same entries, age and sex under every ethnicity.
C30_ImpactsIgnoreEthnicity ==
  call.fn = "impacts" =>
    \A e \in EthAll :
      LET other == impacts(call.entries, call.age, call.sex, e)
      IN /\ Len(other) = Len(ret.impacts)
         /\ \A i \in 1..Len(other) :
              other[i].id = ret.impacts[i].id /\ other[i].gain = ret.impacts[i].gain
         /\ \A m \in 1..Len(MK) :
              (\E j \in 1..Len(call.entries) : call.entries[j].metricId = MK[m]) =>
                getHypoBioAge(call.entries, call.age, call.sex, e, MK[m])
                  = getHypoBioAge(call.entries, call.age, call.sex, call.eth, MK[m])
         /\ [n |-> ret.n, d |-> ret.d] = getBioAge(call.entries, call.age, call.sex)

\* C30 witness: a ranking with a glucose row of positive gain was computed
\* under an ethnicity that lowers the upper end of glucose's optimal range.
C30_AdjustedMetricRanked ==
  /\ call.fn = "impacts" /\ call.eth = "hispanic"
  /\ \E i \in 1..Len(ret.impacts) : ret.impacts[i].id = "glucose" /\ ret.impacts[i].gain > 0
  /\ getM("glucose", call.sex, "hispanic").opt.max # getM("glucose", call.sex, "general").opt.max

\* The records of a whole text: the first and last position of every match
RECURSIVE recordSpans(_, _)
recordSpans(text, from) ==
  LET i == nextMatch(text, from)
  IN IF i = 0 THEN {}
     ELSE {<<i, matchEnd(text, i)>>} \cup recordSpans(text, matchEnd(text, i) + 1)

\* The number of symbols of the text that the reader has taken
taken == IF rq # <<>> THEN Head(rq).from - 1 ELSE decoded

\* C23 (as claimed): on the deflate path, once the reader has taken a chunk,
\* the part already taken of a record of the text that begins in what was
\* taken and ends in what was not is the end of the retained buffer.
C23_PartialRecordRetained ==
  (ipc = "stream" /\ ~firstChunk /\ rpc # "done") =>
    \A sp \in recordSpans(file.text, 1) :
      (sp[1] <= taken /\ taken < sp[2]) =>
        /\ Len(textBuf) >= taken - sp[1] + 1
        /\ SubSeq(textBuf, Len(textBuf) - (taken - sp[1]), Len(textBuf))
             = SubSeq(file.text, sp[1], taken)

\* C24 (as claimed): on the deflate path the retained buffer is empty or
\* begins with a record start, and it holds no complete record.
C24_NothingRetainedTwice ==
  ipc = "stream" =>
    /\ textBuf # <<>> => recStart(textBuf, 1)
    /\ nextMatch(textBuf, 1) = 0

\* C25 (as claimed): a reader step leaves a retained buffer of at most 32,768
\* characters more than the chunk it decoded.
C25_RetainedBounded ==
  [][(ipc = "stream" /\ rq # <<>> /\ rq' = Tail(rq)) =>
       chars(textBuf') <= 32768 + chars(SubSeq(file.text, Head(rq).from, Head(rq).to))]_vars

imported(e) == e.id[1] \in {"ah", "gf"}

\* C27: at every point of a session the entry collection holds at most one
\* imported entry for a metric and a date.
C27_OneImportedPerKey ==
  \A i, j \in 1..Len(entries) :
    (/\ imported(entries[i]) /\ imported(entries[j])
     /\ entries[i].metricId = entries[j].metricId
     /\ entries[i].date = entries[j].date) => i = j

\* C27 witness: an import whose result held two entries of one metric and
\* date has been confirmed after a manual log, and the collection holds a
\* logged entry and an imported entry of that metric and date.
C27_DuplicateKeysImported ==
  /\ step = "done" /\ preview.status = "ok"
  /\ \E i, j \in 1..Len(preview.entries) :
       /\ i # j
       /\ preview.entries[i].metricId = preview.entries[j].metricId
       /\ preview.entries[i].date = preview.entries[j].date
       /\ \E k \in 1..Len(entries) :
            /\ imported(entries[k])
            /\ entries[k].metricId = preview.entries[i].metricId
            /\ entries[k].date = preview.entries[i].date
  /\ \E k \in 1..Len(entries) : ~imported(entries[k])

C29_DetectedArchiveHasFiles ==
  (zfn = "parseGF" /\ isGoogleFitZipBytes(ab, 0)) =>
    ~(zpc = "thrown" /\ zout.err = "No Google Fit data files found.")

====
